---- MODULE Spec2Model ----
(***************************************************************************)
(* Verification model of the tunneler core (lmtm):                         *)
(*   - internal/ssh Manager (BuildTunnels / CloseAll / emit) with the      *)
(*     Tunnel Start / Stop steps it drives and the TUI event consumer,     *)
(*   - internal/portmap PortAllocator (Allocate / Release),                *)
(*   - internal/ssh Client (Connect / hostKeyCallback / Close /            *)
(*     StartKeepalive / Dial / Exec) and the TUI connect flow              *)
(*     (connectCmd / disconnect),                                          *)
(*   - internal/ssh Tunnel (Start / acceptLoop / forward / Stop),          *)
(*   - internal/gateway ValidateSubnet, FloodPing and ARPTable.            *)
(* Each component has its own specification over the shared variables:     *)
(*   Spec       Manager with one BuildTunnels goroutine, a caller of       *)
(*              CloseAll and the event consumer                            *)
(*   SpecBuild  BuildTunnels and the consumer alone, with fairness of the  *)
(*              build goroutine (termination)                              *)
(*   SpecAlloc  PortAllocator under arbitrary Allocate / Release calls     *)
(*   SpecExhaust PortAllocator, one remote host:port until the probe       *)
(*              window is exhausted                                        *)
(*   SpecClient one Client under arbitrary Connect / Close calls           *)
(*   SpecApp    the TUI connect flow, which builds its Clients itself      *)
(*   SpecSession one Client with its keepalive loop, Dial calls and one    *)
(*              Exec call at a time; SpecSessionFair adds the scheduling   *)
(*              of the goroutine that runs Exec                            *)
(*   SpecTunnel one Tunnel: Start, its accept loop and forwards, and a     *)
(*              caller of Stop at any time                                 *)
(*   SpecGateway FloodPing / ARPTable calls on either gateway variant      *)
(***************************************************************************)
EXTENDS Integers, Sequences, FiniteSets, TLC

(***************************************************************************)
(* Bounds of the model.                                                    *)
(***************************************************************************)
\* number of TunnelSpecs handed to BuildTunnels
MaxSpecs == 2
\* number of times the caller invokes CloseAll on the manager
MaxCloseCalls == 2
\* number of Allocate calls explored by SpecAlloc
MaxAllocCalls == 4
\* number of distinct key blobs per host key type a server may present
MaxKeyBlobs == 2
\* number of connectCmd runs of the TUI explored by SpecApp
MaxConnectRuns == 2
\* number of connections a Tunnel's listener accepts
MaxConns == 2
\* number of Gateway calls explored by SpecGateway
MaxGwCalls == 2
\* number of well-placed pieces of a generated subnet argument (one more
\* piece is tried as well)
MaxPieces == 3

(***************************************************************************)
(* Manager, Tunnel and consumer state (internal/ssh/manager.go, tunnel.go) *)
(***************************************************************************)
VARIABLES
  tunnels,        \* Manager.tunnels: sequence of Tunnel records
  eventCh,        \* contents of the buffered channel Manager.eventCh
  chanCap,        \* cap(eventCh), the eventChSize given to NewManager
  chClosed,       \* the channel itself has been closed
  closed,         \* Manager.closed, the flag guarding eventCh
  buildCancelled, \* Manager.buildCtx is done (cancelFn was called)
  crashed,        \* "none", or the runtime panic that ended the process
  bpc,            \* BuildTunnels: position of the goroutine
  bi,             \* BuildTunnels: index of the spec of the current iteration
  bStartErr,      \* BuildTunnels: tun.Start() of this iteration returned an error
  bFirstErr,      \* BuildTunnels: firstErr, as the index of the spec whose
                  \* Start returned it (0 for nil)
  bResult,        \* BuildTunnels: returned value ("none" while running)
  cpc,            \* CloseAll: position of the caller
  cSnap,          \* CloseAll: length of the snapshot of Manager.tunnels
  ci,             \* CloseAll: index in the snapshot
  cCalls,         \* number of CloseAll invocations so far
  cReturned,      \* number of CloseAll invocations that returned
  consumed,       \* events the consumer has read from Events()
  offered,        \* history: events BuildTunnels handed to emit, in order
  startedAt,      \* history: Len(offered) when Start() of tunnel i was invoked
  dropped,        \* history: number of events emit dropped on a full queue
  lateEmits,      \* history: number of emits that found Manager.closed set
  sendOnClosed,   \* history: a send was attempted on the closed channel
  closeCount,     \* history: number of close(eventCh) executed
  begunAtCancel   \* history: specs begun when buildCtx was first cancelled

mgrVars == <<tunnels, eventCh, chanCap, chClosed, closed, buildCancelled,
             crashed, bpc, bi, bStartErr, bFirstErr, bResult, cpc, cSnap, ci,
             cCalls, cReturned, consumed, offered, startedAt,
             dropped, lateEmits, sendOnClosed, closeCount, begunAtCancel>>

(***************************************************************************)
(* PortAllocator state (internal/portmap)                                  *)
(***************************************************************************)
VARIABLES
  allocated,      \* PortAllocator.allocated: local port -> PortMapping
  held,           \* history: local port -> allocations given it, unreleased
  succRun,        \* history: key -> successful Allocates since the last Release
  aLast,          \* history: the last call, its result and the table before it
  aCalls          \* number of Allocate calls so far (SpecAlloc)

allocVars == <<allocated, held, succRun, aLast, aCalls>>

(***************************************************************************)
(* Client state (internal/ssh client) and the TUI connect flow             *)
(***************************************************************************)
VARIABLES
  client,         \* the Client in use: connected, conn, gateway, password,
                  \* knownHosts, ctx
  kLast,          \* history: the last Client call, its inputs and its result
  accepted,       \* history: host -> first host key accepted in this process
  apc,            \* connectCmd / AppModel: position of the connect flow
  aRuns           \* number of connectCmd runs so far (SpecApp)

connVars == <<client, kLast, accepted, apc, aRuns>>

VARIABLES
  attempts,       \* history: the Connect calls of the current connectCmd run
  kaStarted,      \* history: this run called StartKeepalive
  detectRun,      \* history: this run called gateway.Detect
  flowMsg         \* the message the current connectCmd run returned

flowVars == <<attempts, kaStarted, detectRun, flowMsg>>

(***************************************************************************)
(* One Tunnel with its accept loop, its forward goroutines and a caller    *)
(* of Stop (internal/ssh/tunnel.go)                                        *)
(***************************************************************************)
VARIABLES
  tun,            \* the Tunnel: LocalPort, Status, Error, listener, addr,
                  \* cancelled (ctx is done), connCount
  tpc,            \* Start: position of the caller
  lpc,            \* acceptLoop: position of the goroutine
  consecutiveErrors, \* acceptLoop: its local counter
  pending,        \* forward goroutines spawned that have not yet run
  spc,            \* Stop: position of the caller
  sResult,        \* Stop: returned value ("none" until it returns)
  sSeen,          \* Stop: connCount read by the last drain check
  sReported,      \* Stop: count named in the returned error
  sStatus,        \* history: Status when Stop returned
  conns,          \* history: connections accepted so far
  errsSinceOk,    \* history: Accept errors since the last accepted connection
  tStorm          \* history: the accept loop marked the tunnel failed

tunVars == <<tun, tpc, lpc, consecutiveErrors, pending, spc, sResult, sSeen,
             sReported, sStatus, conns, errsSinceOk, tStorm>>

(***************************************************************************)
(* The users of one Client: its keepalive goroutine, callers of Dial and   *)
(* one Exec call with its command goroutine (ssh client, exec.go)          *)
(***************************************************************************)
VARIABLES
  kpc,            \* keepalive goroutine: position
  failures,       \* keepalive goroutine: its local counter
  kOld,           \* keepalive goroutine: a context cancelled since the loop
                  \* started may be the one its unsynchronised read returns
  probeRun,       \* history: failed probes since the last successful one
  sLast,          \* history: the last Dial or Exec call and what it did
  epc,            \* Exec: position of the caller
  ectx,           \* Exec: the caller's ctx is done
  eRet,           \* Exec: what the last call returned
  gpc,            \* Exec's command goroutine: position
  gRes,           \* Exec's command goroutine: result of CombinedOutput
  ech             \* Exec: contents of the result channel ch

sessVars == <<kpc, failures, kOld, probeRun, sLast, epc, ectx, eRet, gpc, gRes, ech>>

(***************************************************************************)
(* A caller of the Gateway capability (internal/gateway)                   *)
(***************************************************************************)
VARIABLES
  gLast,          \* the last Gateway call: method, vendor, subnet, the error
                  \* returned and the commands it handed to run
  gCalls,         \* number of Gateway calls so far
  gRuns           \* history: number of commands handed to run so far

gwVars == <<gLast, gCalls, gRuns>>

(***************************************************************************)
(* A caller of one of the package-level functions (ValidateSubnet, Detect, *)
(* ClassifyByVendor, LocalPort): the argument it passes, the result        *)
(***************************************************************************)
VARIABLES
  fn,             \* the function called ("none" where no such call is made)
  fArg,           \* its argument
  fRes,           \* its result ("unset" until the call has returned)
  fDone           \* the call has returned

pureVars == <<fn, fArg, fRes, fDone>>

(***************************************************************************)
(* The forward goroutines of the Tunnel (tunnel.go), one per accepted      *)
(* connection                                                              *)
(***************************************************************************)
VARIABLES
  fwd             \* connection -> position of its forward goroutine, its
                  \* local socket and its remote stream

fwdVars == <<fwd>>

(***************************************************************************)
(* CloseAll's errors (manager.go): which Stop and Close calls fail, the    *)
(* error CloseAll holds and returns, and the steps of its current call     *)
(***************************************************************************)
VARIABLES
  stopErrs,       \* the tunnels with connections that do not drain: Stop of
                  \* such a tunnel returns the drain timeout error
  closeErr,       \* closing the transport of the Client returns an error
  cFirstErr,      \* CloseAll: firstErr
  cResult,        \* CloseAll: the value the last call returned
  cLog            \* history: the steps of the current CloseAll call, in order

closeVars == <<stopErrs, closeErr, cFirstErr, cResult, cLog>>

(***************************************************************************)
(* The TUI root model (AppModel): the wizard state and what its handlers   *)
(* set with it                                                             *)
(***************************************************************************)
VARIABLES
  state,          \* m.state
  prevState,      \* m.prevState: the state toError was called in
  lastErr,        \* m.lastErr: the error toError was given, "nil" for none
  sshClient,      \* m.sshClient is not nil
  manager,        \* m.manager is not nil
  gatewayType,    \* m.gatewayType, "" until a gateway was detected
  inbox,          \* the messages the commands started have in flight
  screens         \* the sub-models created so far: m.detect, m.survey,
                  \* m.scan, m.devices, m.building, m.tunnels

wizVars == <<state, prevState, lastErr, sshClient, manager, gatewayType,
             inbox, screens>>

\* the components a Manager step leaves alone, CloseAll's errors apart
restVars == <<tunVars, sessVars, gwVars, pureVars, fwdVars, wizVars>>

compVars == <<tunVars, sessVars, gwVars, pureVars, closeVars, fwdVars,
              wizVars>>

\* what a call of a package-level function leaves alone
otherThanPure == <<mgrVars, allocVars, connVars, flowVars, tunVars, sessVars,
                   gwVars, closeVars, fwdVars, wizVars>>

\* what a Gateway call leaves alone
otherThanGw == <<mgrVars, allocVars, connVars, flowVars, tunVars, sessVars,
                 pureVars, closeVars, fwdVars, wizVars>>

\* what a Tunnel step leaves alone
otherThanTun == <<mgrVars, allocVars, connVars, flowVars, sessVars, gwVars,
                  pureVars, closeVars, fwdVars, wizVars>>

\* what a step of a forward goroutine leaves alone, the Tunnel apart
otherThanFwd == <<mgrVars, allocVars, connVars, flowVars, sessVars, gwVars,
                  pureVars, closeVars, wizVars>>

\* what a step of a Client's user leaves alone, the Client apart
otherThanSess == <<mgrVars, allocVars, flowVars, tunVars, gwVars, pureVars,
                   closeVars, fwdVars, wizVars>>

\* what a step of the TUI root model leaves alone
otherThanWiz == <<mgrVars, allocVars, connVars, flowVars, tunVars, sessVars,
                  gwVars, pureVars, closeVars, fwdVars>>

vars == <<mgrVars, allocVars, connVars, flowVars, compVars>>

\* The specs handed to BuildTunnels, by index.
SpecIds == 1..MaxSpecs

\* mutant: one slot per spec
EventChSizeOnePerSpec(n) == n

\* the size updateDevices gives the queue: ssh.NewManager(m.sshClient,
\* len(specs)*2)
EventChSize(n) == n * 2

\* cap(eventCh) values tried: a queue of one slot, and the TUI's len(specs)*2.
CapChoices == {1, EventChSize(MaxSpecs)}

TunnelEvent(i, ty) == [Tunnel |-> i, Type |-> ty]

\* NewTunnel: status disconnected, no listener, context live.
NewTunnel(i) ==
  [id |-> i, Status |-> "disconnected", Error |-> FALSE,
   listener |-> "nil", cancelled |-> FALSE]

Running == crashed = "none"

\* the error values of CloseAll: none, the drain timeout of a tunnel's Stop,
\* the error of Client.Close
NoErr == [kind |-> "nil", tunnel |-> 0]

StopErr(i) == [kind |-> "stop", tunnel |-> i]

ClientCloseErr == [kind |-> "close", tunnel |-> 0]

\* CloseAll has not returned
NotReturned == [kind |-> "none", tunnel |-> 0]

\* a step of CloseAll, for the history: the statement, the tunnel it is
\* about (0 when none) and whether it returned an error
CloseStep(step, i, err) == [step |-> step, tunnel |-> i, err |-> err]

(***************************************************************************)
(* Client (ssh client): Connect, hostKeyCallback, Close, zeroPassword.     *)
(* A Client is a record; every method maps a Client to the Client after    *)
(* the call and the error returned.                                        *)
(***************************************************************************)
Hosts == {"gw1", "gw2"}

KeyTypes == {"ssh-ed25519", "ssh-rsa"}

\* A host key: its algorithm name (key.Type()) and its key material.
Keys == [Type : KeyTypes, Blob : 1..MaxKeyBlobs]

\* No host key reached the callback (dial or key exchange failed before it).
NoKey == [Type |-> "none", Blob |-> 0]

\* key.Marshal(): the wire form holds the algorithm name and the key material
Marshal(key) == <<key.Type, key.Blob>>

\* the password typed in the connect form, as bytes
Password == <<115, 51>>

\* hostKeyAlgos given to Connect: nil, or the legacy set of connectCmd
AlgoChoices == {{}, {"ssh-rsa"}}

NoHosts == [h \in {} |-> NoKey]

\* NewClient(): empty known hosts store, everything else zero
NewClient ==
  [connected |-> FALSE, conn |-> FALSE, gateway |-> "", password |-> <<>>,
   pwMem |-> <<>>, knownHosts |-> NoHosts, ctx |-> "nil"]

\* mutant: the buffer is dropped with its bytes left in memory
zeroPasswordDropOnly(c) == [c EXCEPT !.password = <<>>]

\* zeroPassword: overwrite the bytes, then drop the buffer.  pwMem is the
\* memory the last password buffer occupied.
zeroPassword(c) ==
  [c EXCEPT !.pwMem = IF c.password = <<>> THEN @
                      ELSE [i \in DOMAIN c.password |-> 0],
            !.password = <<>>]

\* mutant: the comparison looks at the key type only
hostKeyCallbackTypeOnly(known, host, key) ==
  IF host \notin DOMAIN known
    THEN [err |-> FALSE, known |-> (host :> key) @@ known]
    ELSE [err |-> key.Type # known[host].Type, known |-> known]

\* The callback built by hostKeyCallback(host), applied to the presented key:
\* an unseen host has its key stored; a seen host must present the stored key
\* (same Type and same Marshal bytes).
hostKeyCallback(known, host, key) ==
  IF host \notin DOMAIN known
    THEN [err |-> FALSE, known |-> (host :> key) @@ known]
    ELSE IF key.Type # known[host].Type \/ Marshal(key) # Marshal(known[host])
      THEN [err |-> TRUE, known |-> known]
      ELSE [err |-> FALSE, known |-> known]

\* mutant: Connect does not look at c.connected
ConnectOverwrites(c, host, pw, key, authOk) ==
  LET c1 == [c EXCEPT !.password = pw, !.pwMem = pw] IN
  IF key = NoKey
    THEN [c |-> zeroPassword(c1), err |-> "network", presented |-> FALSE]
    ELSE
      LET cb == hostKeyCallback(c1.knownHosts, host, key)
          c2 == [c1 EXCEPT !.knownHosts = cb.known] IN
      IF cb.err
        THEN [c |-> zeroPassword(c2), err |-> "hostkey", presented |-> TRUE]
        ELSE IF ~authOk
          THEN [c |-> zeroPassword(c2), err |-> "auth", presented |-> TRUE]
          ELSE [c |-> [c2 EXCEPT !.conn = TRUE, !.gateway = host,
                                 !.connected = TRUE, !.ctx = "live"],
                err |-> "nil", presented |-> TRUE]

\* Client.Connect(host, "22", user, password, hostKeyAlgos).  key is the host
\* key the server presents in the handshake (NoKey when gossh.Dial fails
\* before the key is verified), authOk whether the password is accepted.
Connect(c, host, pw, key, authOk) ==
  IF c.connected
    THEN [c |-> c, err |-> "already", presented |-> FALSE]
    ELSE
      LET c1 == [c EXCEPT !.password = pw, !.pwMem = pw] IN
      IF key = NoKey
        THEN [c |-> zeroPassword(c1), err |-> "network", presented |-> FALSE]
        ELSE
          LET cb == hostKeyCallback(c1.knownHosts, host, key)
              c2 == [c1 EXCEPT !.knownHosts = cb.known] IN
          IF cb.err
            THEN [c |-> zeroPassword(c2), err |-> "hostkey", presented |-> TRUE]
            ELSE IF ~authOk
              THEN [c |-> zeroPassword(c2), err |-> "auth", presented |-> TRUE]
              ELSE [c |-> [c2 EXCEPT !.conn = TRUE, !.gateway = host,
                                     !.connected = TRUE, !.ctx = "live"],
                    err |-> "nil", presented |-> TRUE]

\* the error Client.Close() returns: that of conn.Close(), if there is a conn
CloseErr(c, transportErr) ==
  IF c.conn /\ transportErr THEN "close" ELSE "nil"

\* Client.Close(): cancel the context, zero the password, connected = false,
\* close and drop the transport.
Close(c) ==
  [zeroPassword(c) EXCEPT
     !.ctx = IF c.ctx = "nil" THEN "nil" ELSE "cancelled",
     !.connected = FALSE,
     !.conn = FALSE]

\* the keys a server can present under the given host key algorithms
Presentable(algos) ==
  IF algos = {} THEN Keys ELSE {k \in Keys : k.Type \in algos}

\* history: the first key accepted for each host in this process
Accept(acc, host, r, key) ==
  IF r.presented /\ r.err # "hostkey" /\ host \notin DOMAIN acc
    THEN (host :> key) @@ acc
    ELSE acc

KeyOf(f, host) == IF host \in DOMAIN f THEN f[host] ELSE NoKey

CallRecord(op, host, key, r, c, acc) ==
  [op |-> op, host |-> host, key |-> key, err |-> r.err,
   presented |-> r.presented, pinBefore |-> KeyOf(c.knownHosts, host),
   accBefore |-> KeyOf(acc, host)]

NoCall ==
  [op |-> "none", host |-> "", key |-> NoKey, err |-> "nil",
   presented |-> FALSE, pinBefore |-> NoKey, accBefore |-> NoKey]

\* a caller invokes Connect on the Client it holds
ClientConnect ==
  \E host \in Hosts, algos \in AlgoChoices, authOk \in BOOLEAN :
    \E key \in Presentable(algos) \cup {NoKey} :
      LET r == Connect(client, host, Password, key, authOk) IN
        /\ client' = r.c
        /\ kLast' = CallRecord("connect", host, key, r, client, accepted)
        /\ accepted' = Accept(accepted, host, r, key)
        /\ UNCHANGED <<apc, aRuns>>
  /\ UNCHANGED <<mgrVars, allocVars, flowVars, compVars>>

\* one Close call and the record of it
DoClose ==
  /\ client' = Close(client)
  /\ \E transportErr \in BOOLEAN :
       kLast' = [NoCall EXCEPT !.op = "close",
                               !.err = CloseErr(client, transportErr)]

\* a caller invokes Close on the Client it holds
ClientClose ==
  /\ DoClose
  /\ UNCHANGED <<accepted, apc, aRuns>>
  /\ UNCHANGED <<mgrVars, allocVars, flowVars, compVars>>

(***************************************************************************)
(* Client.StartKeepalive, Client.Dial and Client.Exec.  The Client's       *)
(* fields are read and written under c.mu, so each locked section is one   *)
(* step; the keepalive loop reads c.ctx outside the lock.                  *)
(***************************************************************************)
\* the keepalive loop gives up at this many consecutive failed probes
KeepaliveFailureLimit == 3

\* cap of the result channel of Exec: make(chan result, 1)
ExecChanCap == 1

\* the Client's fields the connect flow and the callers' history keep
connHist == <<kLast, accepted, apc, aRuns>>

\* StartKeepalive: return if c.ctx == nil, else start the goroutine with
\* failures := 0.  One keepalive goroutine runs at a time.
StartKeepalive ==
  /\ kpc \in {"none", "exited"}
  /\ IF client.ctx = "nil"
       THEN UNCHANGED <<kpc, failures, kOld, probeRun>>
       ELSE /\ kpc' = "select"
            /\ failures' = 0
            /\ kOld' = FALSE
            /\ probeRun' = 0
  /\ UNCHANGED <<client, connHist, sLast, epc, ectx, eRet, gpc, gRes, ech>>
  /\ UNCHANGED otherThanSess

\* keepalive loop, case <-c.ctx.Done(): return
KeepaliveDone ==
  /\ kpc = "select"
  /\ client.ctx = "cancelled" \/ kOld
  /\ kpc' = "exited"
  /\ UNCHANGED <<client, connHist, failures, kOld, probeRun, sLast, epc, ectx,
                 eRet, gpc, gRes, ech>>
  /\ UNCHANGED otherThanSess

\* mutant: a successful probe leaves the counter as it is
AfterProbeNoReset(n, ok) == IF ok THEN n ELSE n + 1

\* failures++ on a failed probe, failures = 0 on a successful one
AfterProbe(n, ok) == IF ok THEN 0 ELSE n + 1

\* keepalive loop, case <-ticker.C: return if c.conn == nil, else send the
\* keepalive request and count the outcome
KeepaliveProbe ==
  /\ kpc = "select"
  /\ IF ~client.conn
       THEN /\ kpc' = "exited"
            /\ UNCHANGED <<failures, probeRun>>
       ELSE \E ok \in BOOLEAN :
              /\ failures' = AfterProbe(failures, ok)
              /\ probeRun' = IF ok THEN 0 ELSE probeRun + 1
              /\ kpc' = IF ~ok /\ AfterProbe(failures, ok) >= KeepaliveFailureLimit
                          THEN "mark" ELSE "select"
  /\ UNCHANGED <<client, connHist, kOld, sLast, epc, ectx, eRet, gpc, gRes, ech>>
  /\ UNCHANGED otherThanSess

\* keepalive loop at the limit: c.connected = false under the lock, return
KeepaliveMarkDead ==
  /\ kpc = "mark"
  /\ client' = [client EXCEPT !.connected = FALSE]
  /\ kpc' = "exited"
  /\ UNCHANGED <<connHist, failures, kOld, probeRun, sLast, epc, ectx, eRet,
                 gpc, gRes, ech>>
  /\ UNCHANGED otherThanSess

\* the gateway of the session and the host key it presents
SessHost == "gw1"

SessKey == [Type |-> "ssh-ed25519", Blob |-> 1]

\* Connect by the holder of the Client, to the one gateway: the dial fails,
\* the password is refused, or the Client is connected
SessConnect ==
  /\ \E authOk \in BOOLEAN, key \in {SessKey, NoKey} :
       LET r == Connect(client, SessHost, Password, key, authOk) IN
         /\ client' = r.c
         /\ kLast' = CallRecord("connect", SessHost, key, r, client, accepted)
         /\ accepted' = Accept(accepted, SessHost, r, key)
  /\ UNCHANGED <<apc, aRuns>>
  /\ UNCHANGED sessVars
  /\ UNCHANGED otherThanSess

\* Close by the holder of a Client whose keepalive loop may be running
SessClose ==
  /\ DoClose
  /\ kOld' = (kOld \/ (kpc \in {"select", "mark"} /\ client.ctx = "live"))
  /\ UNCHANGED <<accepted, apc, aRuns>>
  /\ UNCHANGED <<kpc, failures, probeRun, sLast, epc, ectx, eRet, gpc, gRes, ech>>
  /\ UNCHANGED otherThanSess

NoUse ==
  [op |-> "none", wasConnected |-> FALSE, hadConn |-> FALSE, err |-> "nil",
   opened |-> FALSE]

\* a Dial or Exec call: whether the Client was connected and held a
\* transport when it was made, the error, and whether a stream or session
\* was asked of the transport
Use(op, c, r) ==
  [op |-> op, wasConnected |-> c.connected, hadConn |-> c.conn,
   err |-> r.err, opened |-> r.opened]

\* mutant: Dial looks at the transport only
DialChecksConnOnly(c, streamOk) ==
  IF ~c.conn
    THEN [err |-> "notconnected", opened |-> FALSE]
    ELSE [err |-> IF streamOk THEN "nil" ELSE "dial", opened |-> TRUE]

\* Client.Dial: not connected unless connected && conn != nil; else
\* conn.Dial, whose error is wrapped
Dial(c, streamOk) ==
  IF ~c.connected \/ ~c.conn
    THEN [err |-> "notconnected", opened |-> FALSE]
    ELSE [err |-> IF streamOk THEN "nil" ELSE "dial", opened |-> TRUE]

\* Client.Exec up to the session: the same check, then conn.NewSession()
ExecOpen(c, sessionOk) ==
  IF ~c.connected \/ ~c.conn
    THEN [err |-> "notconnected", opened |-> FALSE]
    ELSE [err |-> IF sessionOk THEN "nil" ELSE "session", opened |-> TRUE]

\* a caller (a tunnel's forward) invokes Dial
DialCall ==
  /\ \E streamOk \in BOOLEAN :
       sLast' = Use("dial", client, Dial(client, streamOk))
  /\ UNCHANGED <<client, connHist, kpc, failures, kOld, probeRun, epc, ectx,
                 eRet, gpc, gRes, ech>>
  /\ UNCHANGED otherThanSess

\* Exec until the select: the check, NewSession, ch := make(chan result, 1)
\* and the command goroutine.  The caller's ctx may be done already.  One
\* Exec and one command goroutine run at a time.
ExecCall ==
  /\ epc = "idle" /\ gpc \in {"none", "done"}
  /\ \E done \in BOOLEAN, sessionOk \in BOOLEAN :
       LET r == ExecOpen(client, sessionOk) IN
         /\ sLast' = Use("exec", client, r)
         /\ ectx' = done
         /\ IF r.err # "nil"
              THEN /\ eRet' = r.err
                   /\ UNCHANGED <<epc, gpc, gRes, ech>>
              ELSE /\ eRet' = "none"
                   /\ epc' = "select"
                   /\ gpc' = "running"
                   /\ gRes' = "none"
                   /\ ech' = <<>>
  /\ UNCHANGED <<client, connHist, kpc, failures, kOld, probeRun>>
  /\ UNCHANGED otherThanSess

\* the caller's context is cancelled or times out while Exec waits
ExecCancel ==
  /\ epc = "select" /\ ~ectx
  /\ ectx' = TRUE
  /\ UNCHANGED <<client, connHist, kpc, failures, kOld, probeRun, sLast, epc,
                 eRet, gpc, gRes, ech>>
  /\ UNCHANGED otherThanSess

\* command goroutine: session.CombinedOutput(cmd) returns; with an error
\* once Exec has returned and closed the session
CommandFinish ==
  /\ gpc = "running"
  /\ \E ok \in (IF epc = "select" THEN BOOLEAN ELSE {FALSE}) :
       gRes' = IF ok THEN "ok" ELSE "cmderr"
  /\ gpc' = "send"
  /\ UNCHANGED <<client, connHist, kpc, failures, kOld, probeRun, sLast, epc,
                 ectx, eRet, ech>>
  /\ UNCHANGED otherThanSess

\* command goroutine: ch <- result{out, err}
CommandSend ==
  /\ gpc = "send"
  /\ Len(ech) < ExecChanCap
  /\ ech' = Append(ech, gRes)
  /\ gpc' = "done"
  /\ UNCHANGED <<client, connHist, kpc, failures, kOld, probeRun, sLast, epc,
                 ectx, eRet, gRes>>
  /\ UNCHANGED otherThanSess

\* mutant: the cancellation is looked at only once the result is there
ExecSelectCancelAfterResult ==
  /\ epc = "select" /\ ectx /\ ech # <<>>
  /\ eRet' = "cancelled"
  /\ epc' = "idle"
  /\ UNCHANGED <<client, connHist, kpc, failures, kOld, probeRun, sLast, ectx,
                 gpc, gRes, ech>>
  /\ UNCHANGED otherThanSess

\* Exec, case <-ctx.Done(): session.Close(), return the error wrapping
\* ctx.Err()
ExecSelectCancel ==
  /\ epc = "select" /\ ectx
  /\ eRet' = "cancelled"
  /\ epc' = "idle"
  /\ UNCHANGED <<client, connHist, kpc, failures, kOld, probeRun, sLast, ectx,
                 gpc, gRes, ech>>
  /\ UNCHANGED otherThanSess

\* Exec, case r := <-ch: return the output and the command's error
ExecSelectResult ==
  /\ epc = "select" /\ ech # <<>>
  /\ eRet' = Head(ech)
  /\ ech' = Tail(ech)
  /\ epc' = "idle"
  /\ UNCHANGED <<client, connHist, kpc, failures, kOld, probeRun, sLast, ectx,
                 gpc, gRes>>
  /\ UNCHANGED otherThanSess

\* the select of Exec
ExecSelect ==
  \/ ExecSelectCancel
  \/ ExecSelectResult

\* no keepalive loop, no Dial or Exec call yet
InitSession ==
  /\ kpc = "none" /\ failures = 0 /\ kOld = FALSE /\ probeRun = 0
  /\ sLast = NoUse
  /\ epc = "idle" /\ ectx = FALSE /\ eRet = "none"
  /\ gpc = "none" /\ gRes = "none" /\ ech = <<>>

(***************************************************************************)
(* AppModel.connectCmd and AppModel.disconnect (TUI): every connection     *)
(* attempt runs on a Client built by NewClient().                          *)
(***************************************************************************)
\* hostKeyAlgos of the second attempt: []string{"ssh-rsa"}
LegacyAlgos == {"ssh-rsa"}

\* one Connect call of connectCmd: the Client it ran on, the hostKeyAlgos
\* it was given and the error it returned
Attempt(on, algos, err) == [on |-> on, algos |-> algos, err |-> err]

\* mutant: the retry runs on the Client of the failed first attempt
RetryClientReuse(c) == c

\* the Client of the retry: client = ssh.NewClient()
RetryClient(c) == NewClient

\* client := ssh.NewClient(); err := client.Connect(host, "22", user, pass, nil)
ConnectCmdFirst ==
  /\ apc = "idle" /\ aRuns < MaxConnectRuns
  /\ \E host \in Hosts, authOk \in BOOLEAN :
       \E key \in Presentable({}) \cup {NoKey} :
         LET r == Connect(NewClient, host, Password, key, authOk) IN
           /\ client' = r.c
           /\ kLast' = CallRecord("connect", host, key, r, NewClient, accepted)
           /\ accepted' = Accept(accepted, host, r, key)
           /\ attempts' = <<Attempt(NewClient, {}, r.err)>>
           /\ apc' = IF r.err = "nil" THEN "keepalive" ELSE "retry"
  /\ aRuns' = aRuns + 1
  /\ kaStarted' = FALSE /\ detectRun' = FALSE /\ flowMsg' = "none"
  /\ UNCHANGED <<mgrVars, allocVars, compVars>>

\* client = ssh.NewClient(); client.Connect(host, "22", user, pass, ["ssh-rsa"]);
\* when this fails too: return DetectDoneMsg{Err: "connection failed: ..."}
ConnectCmdRetry ==
  /\ apc = "retry"
  /\ \E authOk \in BOOLEAN :
       \E key \in Presentable(LegacyAlgos) \cup {NoKey} :
         LET host == kLast.host
             on == RetryClient(client)
             r == Connect(on, host, Password, key, authOk) IN
           /\ client' = r.c
           /\ kLast' = CallRecord("connect", host, key, r, on, accepted)
           /\ accepted' = Accept(accepted, host, r, key)
           /\ attempts' = Append(attempts, Attempt(on, LegacyAlgos, r.err))
           /\ apc' = IF r.err = "nil" THEN "keepalive" ELSE "failed"
           /\ flowMsg' = IF r.err = "nil" THEN flowMsg ELSE "connection failed"
  /\ UNCHANGED <<aRuns, kaStarted, detectRun>>
  /\ UNCHANGED <<mgrVars, allocVars, compVars>>

\* client.StartKeepalive(30 * time.Second), on the Client that connected
ConnectCmdKeepalive ==
  /\ apc = "keepalive"
  /\ kaStarted' = TRUE
  /\ apc' = "detect"
  /\ UNCHANGED <<client, kLast, accepted, aRuns, attempts, detectRun, flowMsg>>
  /\ UNCHANGED <<mgrVars, allocVars, compVars>>

\* gw, err := gateway.Detect(ctx, banner, runner); hostname; sshConnectedMsg.
\* Detect falls back to the ubiquiti variant and returns a nil error on every
\* path, so the client.Close() branch of connectCmd is never taken.
ConnectCmdDetect ==
  /\ apc = "detect"
  /\ detectRun' = TRUE
  /\ flowMsg' = "sshConnectedMsg"
  /\ apc' = "connected"
  /\ UNCHANGED <<client, kLast, accepted, aRuns, attempts, kaStarted>>
  /\ UNCHANGED <<mgrVars, allocVars, compVars>>

\* disconnect(): m.sshClient.Close(), back to the connect screen; from the
\* error screen ("r") there is no client to close.
AppDisconnect ==
  /\ apc \in {"connected", "failed"}
  /\ client' = IF apc = "connected" THEN Close(client) ELSE client
  /\ kLast' = [NoCall EXCEPT !.op = "close"]
  /\ apc' = "idle"
  /\ UNCHANGED <<accepted, aRuns, flowVars>>
  /\ UNCHANGED <<mgrVars, allocVars, compVars>>

(***************************************************************************)
(* Texts.  A string is the sequence of its characters; the operators below *)
(* are the strings functions the gateway and discovery packages call.      *)
(***************************************************************************)
LowerCase ==
  <<"a", "b", "c", "d", "e", "f", "g", "h", "i", "j", "k", "l", "m", "n",
    "o", "p", "q", "r", "s", "t", "u", "v", "w", "x", "y", "z">>

UpperCase ==
  <<"A", "B", "C", "D", "E", "F", "G", "H", "I", "J", "K", "L", "M", "N",
    "O", "P", "Q", "R", "S", "T", "U", "V", "W", "X", "Y", "Z">>

\* the letter of `to' at the place ch has in `from', ch itself if it has none
MapLetter(ch, from, to) ==
  IF \E k \in DOMAIN from : from[k] = ch
    THEN to[CHOOSE k \in DOMAIN from : from[k] = ch]
    ELSE ch

\* strings.ToUpper, strings.ToLower
ToUpper(s) == [i \in 1..Len(s) |-> MapLetter(s[i], LowerCase, UpperCase)]

ToLower(s) == [i \in 1..Len(s) |-> MapLetter(s[i], UpperCase, LowerCase)]

\* strings.Contains(s, sub)
Contains(s, sub) ==
  \E k \in 0..(Len(s) - Len(sub)) : SubSeq(s, k + 1, k + Len(sub)) = sub

WhiteSpace == {" ", "\t", "\n", "\r"}

\* strings.TrimSpace(s): s without its leading and trailing white space
TrimSpace(s) ==
  LET black == {i \in 1..Len(s) : s[i] \notin WhiteSpace} IN
    IF black = {} THEN <<>>
    ELSE SubSeq(s, CHOOSE i \in black : \A j \in black : i <= j,
                   CHOOSE i \in black : \A j \in black : i >= j)

Digits == {"0", "1", "2", "3", "4", "5", "6", "7", "8", "9"}

\* the value of a decimal digit
DigitVal(ch) ==
  CASE ch = "0" -> 0 [] ch = "1" -> 1 [] ch = "2" -> 2 [] ch = "3" -> 3
    [] ch = "4" -> 4 [] ch = "5" -> 5 [] ch = "6" -> 6 [] ch = "7" -> 7
    [] ch = "8" -> 8 [] ch = "9" -> 9

\* the positions of the dots of s
Dots(s) == {i \in 1..Len(s) : s[i] = "."}

RECURSIVE Decimal(_)
\* the number %d scans from a run of digits
Decimal(ds) ==
  IF ds = <<>> THEN 0
  ELSE 10 * Decimal(SubSeq(ds, 1, Len(ds) - 1)) + DigitVal(ds[Len(ds)])

\* the least element of a non-empty set of numbers
Least(S) == CHOOSE x \in S : \A y \in S : x <= y

\* the segments of s between its dots: strings.Split(s, ".")
Split(s) ==
  LET D == Dots(s) \cup {0, Len(s) + 1}
      cut(k) == CHOOSE d \in D : Cardinality({e \in D : e < d}) = k
  IN [k \in 1..(Cardinality(D) - 1) |-> SubSeq(s, cut(k - 1) + 1, cut(k) - 1)]

\* strconv.Atoi(t): an optional sign, then one or more decimal digits
Atoi(t) ==
  LET signed == Len(t) > 0 /\ t[1] \in {"+", "-"}
      ds == IF signed THEN SubSeq(t, 2, Len(t)) ELSE t
  IN IF ds = <<>> \/ \E i \in DOMAIN ds : ds[i] \notin Digits
       THEN [ok |-> FALSE, n |-> 0]
       ELSE [ok |-> TRUE,
             n |-> IF signed /\ t[1] = "-" THEN 0 - Decimal(ds)
                   ELSE Decimal(ds)]

\* a field of a dotted IPv4 text as net.ParseIP reads it: 1 to 3 digits, no
\* leading zero before another digit, value at most 255
IPv4Field(t) ==
  /\ Len(t) \in 1..3
  /\ \A i \in DOMAIN t : t[i] \in Digits
  /\ Len(t) > 1 => t[1] # "0"
  /\ Decimal(t) <= 255

\* net.ParseIP(s).To4() of a text without a colon: the four octets of a
\* dotted IPv4 text, nothing for any other text
ParseIPv4(s) ==
  LET parts == Split(s) IN
    IF Len(parts) = 4 /\ \A k \in 1..4 : IPv4Field(parts[k])
      THEN [ok |-> TRUE, v4 |-> [k \in 1..4 |-> Decimal(parts[k])]]
      ELSE [ok |-> FALSE, v4 |-> <<>>]

\* strings.HasPrefix(s, prefix)
HasPrefix(s, prefix) ==
  Len(s) >= Len(prefix) /\ SubSeq(s, 1, Len(prefix)) = prefix

\* strings.Split(s, "\n"): the lines of s
Lines(s) ==
  LET D == {i \in 1..Len(s) : s[i] = "\n"} \cup {0, Len(s) + 1}
      cut(k) == CHOOSE d \in D : Cardinality({e \in D : e < d}) = k
  IN [k \in 1..(Cardinality(D) - 1) |-> SubSeq(s, cut(k - 1) + 1, cut(k) - 1)]

\* the fields of s, as \S+ between \s+ takes them: each maximal run of
\* characters that are not white space, with its first and last place
FieldEnd(s, i) ==
  CHOOSE j \in i..Len(s) :
    /\ \A k \in i..j : s[k] \notin WhiteSpace
    /\ j = Len(s) \/ s[j + 1] \in WhiteSpace

Fields(s) ==
  LET S == {i \in 1..Len(s) :
              s[i] \notin WhiteSpace /\ (i = 1 \/ s[i - 1] \in WhiteSpace)}
      nth(k) == CHOOSE i \in S : Cardinality({e \in S : e < i}) = k - 1
  IN [k \in 1..Cardinality(S) |->
        [from |-> nth(k), to |-> FieldEnd(s, nth(k)),
         text |-> SubSeq(s, nth(k), FieldEnd(s, nth(k)))]]

\* \d+ on a whole text
AllDigits(t) == t # <<>> /\ \A i \in DOMAIN t : t[i] \in Digits

\* \d+\.\d+\.\d+\.\d+ on a whole text
IsDotted(t) ==
  LET parts == Split(t) IN Len(parts) = 4 /\ \A k \in 1..4 : AllDigits(parts[k])

HexDigits ==
  Digits \cup {"a", "b", "c", "d", "e", "f", "A", "B", "C", "D", "E", "F"}

\* [0-9A-Fa-f:]{17} on a whole text
IsMAC17(t) == Len(t) = 17 /\ \A i \in 1..17 : t[i] \in HexDigits \cup {":"}

\* six pairs of hex digits with colons between them, on a whole text
IsMAC(t) ==
  /\ Len(t) = 17
  /\ \A i \in 1..17 : IF i % 3 = 0 THEN t[i] = ":" ELSE t[i] \in HexDigits

\* the last place of the run of digits that starts at i
DigitRunEnd(s, i) ==
  CHOOSE j \in i..Len(s) :
    /\ \A k \in i..j : s[k] \in Digits
    /\ j = Len(s) \/ s[j + 1] \notin Digits

\* where a run of digits may start after the dot that follows place e
NextRun(s, e) ==
  e # 0 /\ e + 2 <= Len(s) /\ s[e + 1] = "." /\ s[e + 2] \in Digits

\* the last place of the match of \d+\.\d+\.\d+\.\d+ that starts at i, 0
\* when there is none
DottedEnd(s, i) ==
  LET e1 == IF s[i] \in Digits THEN DigitRunEnd(s, i) ELSE 0
      e2 == IF NextRun(s, e1) THEN DigitRunEnd(s, e1 + 2) ELSE 0
      e3 == IF NextRun(s, e2) THEN DigitRunEnd(s, e2 + 2) ELSE 0
  IN IF NextRun(s, e3) THEN DigitRunEnd(s, e3 + 2) ELSE 0

\* FindString of \d+\.\d+\.\d+\.\d+ : the leftmost match in s, "" when none
FindIP(s) ==
  LET from == {i \in 1..Len(s) : DottedEnd(s, i) # 0} IN
    IF from = {} THEN <<>>
    ELSE SubSeq(s, Least(from), DottedEnd(s, Least(from)))

\* FindString of the six-pair MAC pattern: the leftmost match in s
FindMAC(s) ==
  LET from == {i \in 1..(Len(s) - 16) : IsMAC(SubSeq(s, i, i + 16))} IN
    IF from = {} THEN <<>> ELSE SubSeq(s, Least(from), Least(from) + 16)

(***************************************************************************)
(* PortAllocator (portmap): PortBase, LocalPort, Allocate, Release.        *)
(* A remote IP is the text the caller passes.                              *)
(***************************************************************************)
\* Allocate probes this many consecutive ports
ProbeLimit == 256

\* the highest TCP port
MaxPort == 65535

PortBase(remotePort) ==
  CASE remotePort = 443 -> 4430
    [] remotePort = 80 -> 8030
    [] remotePort = 22 -> 2230
    [] remotePort = 554 -> 5540
    [] OTHER -> 10000 + remotePort * 10

\* mutant: the first octet is taken
lastOctetFirst(ip) ==
  IF ParseIPv4(ip).ok THEN ParseIPv4(ip).v4[1]
  ELSE IF Len(Split(ip)) = 4 /\ Atoi(Split(ip)[4]).ok
          /\ Atoi(Split(ip)[4]).n >= 0 /\ Atoi(Split(ip)[4]).n <= 255
    THEN Atoi(Split(ip)[4]).n
  ELSE 0

\* lastOctet: the fourth octet of a text net.ParseIP reads as IPv4; else the
\* fourth of four dot-separated parts when Atoi reads it as 0..255; else 0
lastOctet(ip) ==
  IF ParseIPv4(ip).ok THEN ParseIPv4(ip).v4[4]
  ELSE IF Len(Split(ip)) = 4 /\ Atoi(Split(ip)[4]).ok
          /\ Atoi(Split(ip)[4]).n >= 0 /\ Atoi(Split(ip)[4]).n <= 255
    THEN Atoi(Split(ip)[4]).n
  ELSE 0

LocalPort(remoteIP, remotePort) == PortBase(remotePort) + lastOctet(remoteIP)

PortMapping(localPort, remoteIP, remotePort) ==
  [LocalPort |-> localPort, RemoteHost |-> remoteIP, RemotePort |-> remotePort]

NoPorts == [q \in {} |-> 0]

\* mutant: the loop runs while i <= 256 and so tries one port more
ProbeOneMore(table, port) ==
  LET open == {i \in 0..ProbeLimit :
                 port + i <= MaxPort /\ port + i \notin DOMAIN table} IN
    IF open = {} THEN 0 ELSE port + Least(open)

\* mutant: a candidate above 65535 is not turned away
ProbeNoCeiling(table, port) ==
  LET open == {i \in 0..(ProbeLimit - 1) : port + i \notin DOMAIN table} IN
    IF open = {} THEN 0 ELSE port + Least(open)

\* the loop of Allocate: for i = 0..255 the candidate port + i, stopping at a
\* candidate above 65535 and returning the first candidate that is not
\* taken; 0 when the loop ends without one
Probe(table, port) ==
  LET open == {i \in 0..(ProbeLimit - 1) :
                 port + i <= MaxPort /\ port + i \notin DOMAIN table} IN
    IF open = {} THEN 0 ELSE port + Least(open)

\* mutant: the formula port is handed out without looking at the table
AllocateNoCollisionCheck(table, remoteIP, remotePort) ==
  LET port == LocalPort(remoteIP, remotePort) IN
    [port |-> port, err |-> FALSE,
     table |-> (port :> PortMapping(port, remoteIP, remotePort)) @@ table]

\* PortAllocator.Allocate, under pa.mu: the port returned, the error and the
\* table after the call
Allocate(table, remoteIP, remotePort) ==
  LET candidate == Probe(table, LocalPort(remoteIP, remotePort)) IN
    IF candidate = 0
      THEN [port |-> 0, err |-> TRUE, table |-> table]
      ELSE [port |-> candidate, err |-> FALSE,
            table |-> (candidate :> PortMapping(candidate, remoteIP, remotePort))
                        @@ table]

\* mutant: the slot is kept
ReleaseKeepsSlot(table, localPort) == table

\* PortAllocator.Release, under pa.mu: delete(pa.allocated, localPort)
Release(table, localPort) ==
  [q \in DOMAIN table \ {localPort} |-> table[q]]

\* remote hosts and service ports of the callers of SpecAlloc: two hosts whose
\* formula ports are neighbours, so that their probe windows overlap
AllocIPs ==
  {<<"1", "0", ".", "0", ".", "0", ".", "5">>,
   <<"1", "0", ".", "0", ".", "0", ".", "6">>}

AllocPorts == {443, 80}

AllocKeys == {<<ip, rp>> : ip \in AllocIPs, rp \in AllocPorts}

\* the one remote host:port of SpecExhaust
ExhaustKey == <<<<"1", "0", ".", "0", ".", "0", ".", "5">>, 443>>

\* the ports a caller of SpecExhaust releases after Allocate failed: both ends
\* of the probe window
ExhaustReleases ==
  {LocalPort(ExhaustKey[1], ExhaustKey[2]),
   LocalPort(ExhaustKey[1], ExhaustKey[2]) + ProbeLimit - 1}

Held(h, q) == IF q \in DOMAIN h THEN h[q] ELSE 0

\* one caller's Allocate call, with the history of what was handed out
DoAllocate(key) ==
  LET r == Allocate(allocated, key[1], key[2]) IN
    /\ allocated' = r.table
    /\ held' = IF r.err THEN held
               ELSE (r.port :> (Held(held, r.port) + 1)) @@ held
    /\ succRun' = IF r.err THEN succRun
                  ELSE [succRun EXCEPT ![key] = @ + 1]
    /\ aLast' = [op |-> "allocate", key |-> key, port |-> r.port,
                 err |-> r.err, runBefore |-> succRun[key],
                 same |-> (r.table = allocated), before |-> allocated]

\* one caller's Release call
DoRelease(localPort) ==
  /\ allocated' = Release(allocated, localPort)
  /\ held' = [q \in DOMAIN held \ {localPort} |-> held[q]]
  /\ succRun' = [k \in DOMAIN succRun |-> 0]
  /\ aLast' = [op |-> "release", key |-> <<<<>>, localPort>>, port |-> localPort,
               err |-> FALSE, runBefore |-> 0,
               same |-> (localPort \notin DOMAIN allocated),
               before |-> allocated]

AllocCall ==
  /\ aCalls < MaxAllocCalls
  /\ \E key \in AllocKeys : DoAllocate(key)
  /\ aCalls' = aCalls + 1
  /\ UNCHANGED <<mgrVars, connVars, flowVars, compVars>>

ReleaseCall ==
  /\ \E q \in DOMAIN allocated : DoRelease(q)
  /\ UNCHANGED <<aCalls, mgrVars, connVars, flowVars, compVars>>

\* a Release of a port that may or may not be allocated
ReleaseAny ==
  /\ \E key \in AllocKeys : DoRelease(LocalPort(key[1], key[2]))
  /\ UNCHANGED <<aCalls, mgrVars, connVars, flowVars, compVars>>

\* remote host:port pairs whose probe window ends at or lies above the
\* highest port: formula ports 65534, 65535 and 109995, and an ordinary one
WindowKeys ==
  {<<<<"1", "0", ".", "0", ".", "0", ".", "4">>, 5553>>,
   <<<<"1", "0", ".", "0", ".", "0", ".", "5">>, 5553>>,
   <<<<"1", "0", ".", "0", ".", "0", ".", "5">>, 9999>>,
   <<<<"1", "0", ".", "0", ".", "0", ".", "5">>, 443>>}

WindowAllocate ==
  /\ aCalls < MaxAllocCalls
  /\ \E key \in WindowKeys : DoAllocate(key)
  /\ aCalls' = aCalls + 1
  /\ UNCHANGED <<mgrVars, connVars, flowVars, compVars>>

ExhaustAllocate ==
  /\ DoAllocate(ExhaustKey)
  /\ UNCHANGED <<aCalls, mgrVars, connVars, flowVars, compVars>>

ExhaustRelease ==
  /\ aLast.op = "allocate" /\ aLast.err
  /\ \E q \in ExhaustReleases : DoRelease(q)
  /\ UNCHANGED <<aCalls, mgrVars, connVars, flowVars, compVars>>

(***************************************************************************)
(* Manager.emit: under closeMu; returns at once if closed is set, else a   *)
(* non-blocking send (select with default) that drops when the buffer is   *)
(* full.  A send on a closed channel panics in Go, also inside select.     *)
(***************************************************************************)
\* mutant: no closed guard before the send
emitUnguarded(ev) ==
  IF chClosed
    THEN /\ sendOnClosed' = TRUE
         /\ crashed' = "send on closed channel"
         /\ UNCHANGED <<eventCh, dropped, lateEmits>>
    ELSE /\ IF Len(eventCh) < chanCap
              THEN eventCh' = Append(eventCh, ev) /\ dropped' = dropped
              ELSE eventCh' = eventCh /\ dropped' = dropped + 1
         /\ UNCHANGED <<sendOnClosed, crashed, lateEmits>>

\* mutant: a blocking send, which waits for room in the queue
emitBlocking(ev) ==
  /\ Len(eventCh) < chanCap
  /\ eventCh' = Append(eventCh, ev)
  /\ UNCHANGED <<sendOnClosed, crashed, lateEmits, dropped>>

\* mutant: the new event overtakes the queued ones
emitFront(ev) ==
  /\ eventCh' = IF Len(eventCh) < chanCap THEN <<ev>> \o eventCh ELSE eventCh
  /\ UNCHANGED <<sendOnClosed, crashed, lateEmits, dropped>>

emit(ev) ==
  IF closed
    THEN /\ lateEmits' = lateEmits + 1
         /\ UNCHANGED <<eventCh, dropped, sendOnClosed, crashed>>
    ELSE IF chClosed
      THEN /\ sendOnClosed' = TRUE
           /\ crashed' = "send on closed channel"
           /\ UNCHANGED <<eventCh, dropped, lateEmits>>
      ELSE /\ IF Len(eventCh) < chanCap
                THEN eventCh' = Append(eventCh, ev) /\ dropped' = dropped
                ELSE eventCh' = eventCh /\ dropped' = dropped + 1
           /\ UNCHANGED <<sendOnClosed, crashed, lateEmits>>

(***************************************************************************)
(* Manager.BuildTunnels, one goroutine (started by the TUI's buildCmd).    *)
(***************************************************************************)
\* number of specs whose loop iteration has passed the cancellation check
Begun == Len(tunnels) + (IF bpc = "append" THEN 1 ELSE 0)

BuildInvoke ==
  /\ Running /\ bpc = "idle"
  /\ bpc' = "check" /\ bi' = 1
  /\ UNCHANGED <<tunnels, eventCh, chanCap, chClosed, closed, buildCancelled,
                 crashed, bStartErr, bFirstErr, bResult, cpc, cSnap, ci,
                 cCalls, cReturned, consumed, offered,
                 startedAt, dropped, lateEmits, sendOnClosed, closeCount,
                 begunAtCancel>>
  /\ UNCHANGED <<allocVars, connVars, flowVars, compVars>>

\* mutant: the loop never looks at buildCtx
BuildCheckIgnoresCancel ==
  /\ Running /\ bpc = "check"
  /\ bpc' = "append"
  /\ UNCHANGED <<tunnels, eventCh, chanCap, chClosed, closed, buildCancelled,
                 crashed, bi, bStartErr, bFirstErr, bResult, cpc, cSnap, ci,
                 cCalls, cReturned, consumed, offered,
                 startedAt, dropped, lateEmits, sendOnClosed, closeCount,
                 begunAtCancel>>
  /\ UNCHANGED <<allocVars, connVars, flowVars, compVars>>

\* select { case <-m.buildCtx.Done(): return "build cancelled"; default: }
BuildCheck ==
  /\ Running /\ bpc = "check"
  /\ IF buildCancelled
       THEN bpc' = "done" /\ bResult' = "cancelled"
       ELSE bpc' = "append" /\ bResult' = bResult
  /\ UNCHANGED <<tunnels, eventCh, chanCap, chClosed, closed, buildCancelled,
                 crashed, bi, bStartErr, bFirstErr, cpc, cSnap, ci,
                 cCalls, cReturned, consumed, offered,
                 startedAt, dropped, lateEmits, sendOnClosed, closeCount,
                 begunAtCancel>>
  /\ UNCHANGED <<allocVars, connVars, flowVars, compVars>>

\* tun := NewTunnel(...); m.mu.Lock(); m.tunnels = append(m.tunnels, tun)
BuildAppend ==
  /\ Running /\ bpc = "append"
  /\ tunnels' = Append(tunnels, NewTunnel(bi))
  /\ bpc' = "emitStarted"
  /\ UNCHANGED <<eventCh, chanCap, chClosed, closed, buildCancelled,
                 crashed, bi, bStartErr, bFirstErr, bResult, cpc, cSnap, ci,
                 cCalls, cReturned, consumed, offered,
                 startedAt, dropped, lateEmits, sendOnClosed, closeCount,
                 begunAtCancel>>
  /\ UNCHANGED <<allocVars, connVars, flowVars, compVars>>

\* m.emit(TunnelEvent{Tunnel: tun, Type: EventStarted})
BuildEmitStarted ==
  /\ Running /\ bpc = "emitStarted"
  /\ emit(TunnelEvent(bi, "started"))
  /\ offered' = Append(offered, TunnelEvent(bi, "started"))
  /\ bpc' = "start"
  /\ UNCHANGED <<tunnels, chanCap, chClosed, closed, buildCancelled,
                 bi, bStartErr, bFirstErr, bResult, cpc, cSnap, ci,
                 cCalls, cReturned, consumed,
                 startedAt, closeCount, begunAtCancel>>
  /\ UNCHANGED <<allocVars, connVars, flowVars, compVars>>

\* Tunnel.Start, first statement: t.Status = StatusConnecting
BuildStartConnecting ==
  /\ Running /\ bpc = "start"
  /\ tunnels' = [tunnels EXCEPT ![bi].Status = "connecting"]
  /\ startedAt' = [startedAt EXCEPT ![bi] = Len(offered)]
  /\ bpc' = "listen"
  /\ UNCHANGED <<eventCh, chanCap, chClosed, closed, buildCancelled,
                 crashed, bi, bStartErr, bFirstErr, bResult, cpc, cSnap, ci,
                 cCalls, cReturned, consumed, offered,
                 dropped, lateEmits, sendOnClosed, closeCount,
                 begunAtCancel>>
  /\ UNCHANGED <<allocVars, connVars, flowVars, compVars>>

\* Tunnel.Start, net.Listen("tcp", "127.0.0.1:<LocalPort>"): on an error the
\* tunnel is failed with its error set; otherwise the listener is stored, the
\* tunnel is active and the accept loop is spawned.
BuildStartListen ==
  /\ Running /\ bpc = "listen"
  /\ \E ok \in BOOLEAN :
       /\ tunnels' = IF ok
            THEN [tunnels EXCEPT ![bi].listener = "open",
                                 ![bi].Status = "active"]
            ELSE [tunnels EXCEPT ![bi].Status = "failed",
                                 ![bi].Error = TRUE]
       /\ bStartErr' = ~ok
  /\ bpc' = "emitOutcome"
  /\ UNCHANGED <<eventCh, chanCap, chClosed, closed, buildCancelled,
                 crashed, bi, bFirstErr, bResult, cpc, cSnap, ci,
                 cCalls, cReturned, consumed, offered,
                 startedAt, dropped, lateEmits, sendOnClosed, closeCount,
                 begunAtCancel>>
  /\ UNCHANGED <<allocVars, connVars, flowVars, compVars>>

\* m.emit(EventFailed) and firstErr = err, or m.emit(EventActive)
BuildEmitOutcome ==
  /\ Running /\ bpc = "emitOutcome"
  /\ LET ty == IF bStartErr THEN "failed" ELSE "active" IN
       /\ emit(TunnelEvent(bi, ty))
       /\ offered' = Append(offered, TunnelEvent(bi, ty))
  /\ bFirstErr' = IF bStartErr /\ bFirstErr = 0 THEN bi ELSE bFirstErr
  /\ bpc' = "sleep"
  /\ UNCHANGED <<tunnels, chanCap, chClosed, closed, buildCancelled,
                 bi, bStartErr, bResult, cpc, cSnap, ci,
                 cCalls, cReturned, consumed,
                 startedAt, closeCount, begunAtCancel>>
  /\ UNCHANGED <<allocVars, connVars, flowVars, compVars>>

\* mutant: the loop ends at the first spec whose Start failed
BuildSleepStopsAtFailure ==
  /\ Running /\ bpc = "sleep"
  /\ IF bi < MaxSpecs /\ bFirstErr = 0
       THEN bi' = bi + 1 /\ bpc' = "check" /\ bResult' = bResult
       ELSE /\ bi' = bi /\ bpc' = "done"
            /\ bResult' = IF bFirstErr # 0 THEN "error" ELSE "nil"
  /\ UNCHANGED <<tunnels, eventCh, chanCap, chClosed, closed, buildCancelled,
                 crashed, bStartErr, bFirstErr, cpc, cSnap, ci,
                 cCalls, cReturned, consumed, offered,
                 startedAt, dropped, lateEmits, sendOnClosed, closeCount,
                 begunAtCancel>>
  /\ UNCHANGED <<allocVars, connVars, flowVars, compVars>>

\* time.Sleep(50ms), then the next spec, or return firstErr after the last
BuildSleep ==
  /\ Running /\ bpc = "sleep"
  /\ IF bi < MaxSpecs
       THEN bi' = bi + 1 /\ bpc' = "check" /\ bResult' = bResult
       ELSE /\ bi' = bi /\ bpc' = "done"
            /\ bResult' = IF bFirstErr # 0 THEN "error" ELSE "nil"
  /\ UNCHANGED <<tunnels, eventCh, chanCap, chClosed, closed, buildCancelled,
                 crashed, bStartErr, bFirstErr, cpc, cSnap, ci,
                 cCalls, cReturned, consumed, offered,
                 startedAt, dropped, lateEmits, sendOnClosed, closeCount,
                 begunAtCancel>>
  /\ UNCHANGED <<allocVars, connVars, flowVars, compVars>>

Build ==
  \/ BuildInvoke
  \/ BuildCheck
  \/ BuildAppend
  \/ BuildEmitStarted
  \/ BuildStartConnecting
  \/ BuildStartListen
  \/ BuildEmitOutcome
  \/ BuildSleep

(***************************************************************************)
(* Manager.CloseAll, invoked by the TUI (disconnect / cleanup); each       *)
(* invocation runs to its return before the next one starts.               *)
(***************************************************************************)
CloseAllInvoke ==
  /\ Running /\ cpc = "idle" /\ cCalls < MaxCloseCalls
  /\ cpc' = "cancel" /\ cCalls' = cCalls + 1
  /\ UNCHANGED <<client, tunnels, eventCh, chanCap, chClosed, closed, buildCancelled,
                 crashed, bpc, bi, bStartErr, bFirstErr, bResult, cSnap, ci,
                 cReturned, consumed, offered, startedAt,
                 dropped, lateEmits, sendOnClosed, closeCount, begunAtCancel>>
  /\ UNCHANGED <<allocVars, kLast, accepted, apc, aRuns, flowVars, restVars>>
  /\ cFirstErr' = NoErr /\ cResult' = NotReturned /\ cLog' = <<>>
  /\ UNCHANGED <<stopErrs, closeErr>>

\* m.cancelFn()
CloseAllCancel ==
  /\ Running /\ cpc = "cancel"
  /\ buildCancelled' = TRUE
  /\ begunAtCancel' = IF buildCancelled THEN begunAtCancel ELSE Begun
  /\ cpc' = "snapshot"
  /\ UNCHANGED <<client, tunnels, eventCh, chanCap, chClosed, closed,
                 crashed, bpc, bi, bStartErr, bFirstErr, bResult, cSnap, ci,
                 cCalls, cReturned, consumed, offered,
                 startedAt, dropped, lateEmits, sendOnClosed, closeCount>>
  /\ UNCHANGED <<allocVars, kLast, accepted, apc, aRuns, flowVars, restVars>>
  /\ cLog' = Append(cLog, CloseStep("cancel", 0, FALSE))
  /\ UNCHANGED <<stopErrs, closeErr, cFirstErr, cResult>>

\* mutant: the channel is closed right after the snapshot, the tunnels after
CloseAllSnapshotClosesFirst ==
  /\ Running /\ cpc = "snapshot"
  /\ cSnap' = Len(tunnels) /\ ci' = 1
  /\ cpc' = "closeCh"
  /\ UNCHANGED <<client, tunnels, eventCh, chanCap, chClosed, closed, buildCancelled,
                 crashed, bpc, bi, bStartErr, bFirstErr, bResult,
                 cCalls, cReturned, consumed, offered,
                 startedAt, dropped, lateEmits, sendOnClosed, closeCount,
                 begunAtCancel>>
  /\ UNCHANGED <<allocVars, kLast, accepted, apc, aRuns, flowVars, restVars>>
  /\ UNCHANGED closeVars

\* m.mu.Lock(); tunnels := copy of m.tunnels; m.mu.Unlock()
CloseAllSnapshot ==
  /\ Running /\ cpc = "snapshot"
  /\ cSnap' = Len(tunnels) /\ ci' = 1
  /\ cpc' = IF Len(tunnels) = 0 THEN "closeCh" ELSE "stop"
  /\ UNCHANGED <<client, tunnels, eventCh, chanCap, chClosed, closed, buildCancelled,
                 crashed, bpc, bi, bStartErr, bFirstErr, bResult,
                 cCalls, cReturned, consumed, offered,
                 startedAt, dropped, lateEmits, sendOnClosed, closeCount,
                 begunAtCancel>>
  /\ UNCHANGED <<allocVars, kLast, accepted, apc, aRuns, flowVars, restVars>>
  /\ UNCHANGED closeVars

\* Tunnel.Stop: t.cancel(); if t.listener != nil { t.listener.Close() }
CloseAllStopCancel ==
  /\ Running /\ cpc = "stop"
  /\ tunnels' = [tunnels EXCEPT
       ![ci].cancelled = TRUE,
       ![ci].listener = IF @ = "open" THEN "closed" ELSE @]
  /\ cpc' = "drain"
  /\ UNCHANGED <<client, eventCh, chanCap, chClosed, closed, buildCancelled,
                 crashed, bpc, bi, bStartErr, bFirstErr, bResult, cSnap, ci,
                 cCalls, cReturned, consumed, offered,
                 startedAt, dropped, lateEmits, sendOnClosed, closeCount,
                 begunAtCancel>>
  /\ UNCHANGED <<allocVars, kLast, accepted, apc, aRuns, flowVars, restVars>>
  /\ UNCHANGED closeVars

\* Tunnel.Stop returns the drain timeout error: connections of tunnel i are
\* still active at the deadline.  Only a tunnel whose listener was open can
\* have any.
StopFails(i) == i \in stopErrs /\ tunnels[i].listener = "closed"

\* mutant: the loop of CloseAll ends at the first Stop that fails
CloseAllEmitClosedAbortsOnError ==
  /\ Running /\ cpc = "emitClosed"
  /\ emit(TunnelEvent(ci, "closed"))
  /\ IF ci < cSnap /\ cFirstErr = NoErr
       THEN ci' = ci + 1 /\ cpc' = "stop"
       ELSE ci' = ci /\ cpc' = "closeCh"
  /\ UNCHANGED <<client, tunnels, chanCap, chClosed, closed, buildCancelled,
                 bpc, bi, bStartErr, bFirstErr, bResult, cSnap,
                 cCalls, cReturned, consumed, offered,
                 startedAt, closeCount, begunAtCancel>>
  /\ UNCHANGED <<allocVars, kLast, accepted, apc, aRuns, flowVars, restVars>>
  /\ cLog' = Append(cLog, CloseStep("closed", tunnels[ci].id, FALSE))
  /\ UNCHANGED <<stopErrs, closeErr, cFirstErr, cResult>>

\* Tunnel.Stop: at the end of the drain wait, t.Status = StatusDisconnected,
\* and the error it returns is kept when it is the first
CloseAllStopDrain ==
  /\ Running /\ cpc = "drain"
  /\ tunnels' = [tunnels EXCEPT ![ci].Status = "disconnected"]
  /\ cpc' = "emitClosed"
  /\ UNCHANGED <<client, eventCh, chanCap, chClosed, closed, buildCancelled,
                 crashed, bpc, bi, bStartErr, bFirstErr, bResult, cSnap, ci,
                 cCalls, cReturned, consumed, offered,
                 startedAt, dropped, lateEmits, sendOnClosed, closeCount,
                 begunAtCancel>>
  /\ UNCHANGED <<allocVars, kLast, accepted, apc, aRuns, flowVars, restVars>>
  /\ cFirstErr' = IF StopFails(ci) /\ cFirstErr = NoErr THEN StopErr(ci)
                  ELSE cFirstErr
  /\ cLog' = Append(cLog, CloseStep("stop", tunnels[ci].id, StopFails(ci)))
  /\ UNCHANGED <<stopErrs, closeErr, cResult>>

\* m.emit(TunnelEvent{Tunnel: tun, Type: EventClosed}), then the next tunnel
CloseAllEmitClosed ==
  /\ Running /\ cpc = "emitClosed"
  /\ emit(TunnelEvent(ci, "closed"))
  /\ IF ci < cSnap
       THEN ci' = ci + 1 /\ cpc' = "stop"
       ELSE ci' = ci /\ cpc' = "closeCh"
  /\ UNCHANGED <<client, tunnels, chanCap, chClosed, closed, buildCancelled,
                 bpc, bi, bStartErr, bFirstErr, bResult, cSnap,
                 cCalls, cReturned, consumed, offered,
                 startedAt, closeCount, begunAtCancel>>
  /\ UNCHANGED <<allocVars, kLast, accepted, apc, aRuns, flowVars, restVars>>
  /\ cLog' = Append(cLog, CloseStep("closed", tunnels[ci].id, FALSE))
  /\ UNCHANGED <<stopErrs, closeErr, cFirstErr, cResult>>

\* m.closeMu.Lock(); m.closed = true; close(m.eventCh); m.closeMu.Unlock()
\* Closing a closed channel panics.
CloseAllCloseCh ==
  /\ Running /\ cpc = "closeCh"
  /\ closed' = TRUE
  /\ closeCount' = closeCount + 1
  /\ IF chClosed
       THEN crashed' = "close of closed channel" /\ chClosed' = chClosed
       ELSE crashed' = crashed /\ chClosed' = TRUE
  /\ cpc' = "clientClose"
  /\ UNCHANGED <<client, tunnels, eventCh, chanCap, buildCancelled,
                 bpc, bi, bStartErr, bFirstErr, bResult, cSnap, ci,
                 cCalls, cReturned, consumed, offered,
                 startedAt, dropped, lateEmits, sendOnClosed, begunAtCancel>>
  /\ UNCHANGED <<allocVars, kLast, accepted, apc, aRuns, flowVars, restVars>>
  /\ cLog' = Append(cLog, CloseStep("closeCh", 0, FALSE))
  /\ UNCHANGED <<stopErrs, closeErr, cFirstErr, cResult>>

\* m.client.Close(), its error kept when it is the first; return firstErr
CloseAllClientClose ==
  /\ Running /\ cpc = "clientClose"
  /\ client' = Close(client)
  /\ cReturned' = cReturned + 1
  /\ cpc' = "idle"
  /\ UNCHANGED <<tunnels, eventCh, chanCap, chClosed, closed, buildCancelled,
                 crashed, bpc, bi, bStartErr, bFirstErr, bResult, cSnap, ci,
                 cCalls, consumed, offered, startedAt,
                 dropped, lateEmits, sendOnClosed, closeCount, begunAtCancel>>
  /\ UNCHANGED <<allocVars, kLast, accepted, apc, aRuns, flowVars, restVars>>
  /\ LET err == IF CloseErr(client, closeErr) = "nil" THEN NoErr
                ELSE ClientCloseErr
         first == IF err # NoErr /\ cFirstErr = NoErr THEN err ELSE cFirstErr
     IN cFirstErr' = first /\ cResult' = first
  /\ cLog' = Append(cLog, CloseStep("clientClose", 0,
                                    CloseErr(client, closeErr) # "nil"))
  /\ UNCHANGED <<stopErrs, closeErr>>

CloseAll ==
  \/ CloseAllInvoke
  \/ CloseAllCancel
  \/ CloseAllSnapshot
  \/ CloseAllStopCancel
  \/ CloseAllStopDrain
  \/ CloseAllEmitClosed
  \/ CloseAllCloseCh
  \/ CloseAllClientClose

(***************************************************************************)
(* The consumer of Events(): buildCmd / nextEventCmd read one event.       *)
(***************************************************************************)
Consume ==
  /\ Running /\ Len(eventCh) > 0
  /\ consumed' = Append(consumed, Head(eventCh))
  /\ eventCh' = Tail(eventCh)
  /\ UNCHANGED <<tunnels, chanCap, chClosed, closed, buildCancelled,
                 crashed, bpc, bi, bStartErr, bFirstErr, bResult, cpc, cSnap,
                 ci, cCalls, cReturned, offered, startedAt,
                 dropped, lateEmits, sendOnClosed, closeCount, begunAtCancel>>
  /\ UNCHANGED <<allocVars, connVars, flowVars, compVars>>

(***************************************************************************)
(* Gateway (internal/gateway): ValidateSubnet, FloodPing and ARPTable of   *)
(* the mikrotik and the ubiquiti variant.  A string is the sequence of its *)
(* characters; a command is the sequence of the pieces Sprintf joins.      *)
(***************************************************************************)
Vendors == {"mikrotik", "ubiquiti"}

\* the subnet arguments tried: well-formed prefixes, out-of-range octets,
\* wrong octet counts, and text carrying shell or script syntax
Subnets ==
  {<<>>,
   <<"1", "0", ".", "0", ".", "0">>,
   <<"1", "9", "2", ".", "1", "6", "8", ".", "1">>,
   <<"2", "5", "5", ".", "2", "5", "5", ".", "2", "5", "5">>,
   <<"0", ".", "0", "0", ".", "0", "0", "7">>,
   <<"2", "5", "6", ".", "0", ".", "0">>,
   <<"1", "0", ".", "0", ".", "9", "9", "9">>,
   <<"1", "0", ".", "0">>,
   <<"1", "0", ".", "0", ".", "0", ".", "1">>,
   <<"1", "0", ".", "0", ".", "0", ";">>,
   <<"1", "0", ".", "0", ".", "0", " ">>,
   <<"1", "0", ".", "0", ".", "0", "\n">>,
   <<"a", ".", "b", ".", "c">>,
   <<"1", ".", ".", "2">>,
   <<"1", "0", "0", "0", ".", "0", ".", "0">>,
   <<"-", "1", ".", "0", ".", "0">>,
   <<"1", ".", "1", ".", "$", "(", "r", ")">>,
   <<"1", "0", ".", "0", ".", "0", ";", " ", "r", "m", " ", "-", "r", "f">>,
   <<"9", "9", "9", ".", "0", ".", "0">>}

\* subnetRe.MatchString(s): ^\d{1,3}\.\d{1,3}\.\d{1,3}$ over the whole text
MatchSubnetRe(s) ==
  /\ Cardinality(Dots(s)) = 2
  /\ \A i \in 1..Len(s) : s[i] \in Digits \cup {"."}
  /\ LET d1 == Least(Dots(s))
         d2 == Least(Dots(s) \ {d1}) IN
       /\ d1 - 1 \in 1..3
       /\ d2 - d1 - 1 \in 1..3
       /\ Len(s) - d2 \in 1..3

\* fmt.Sscanf(s, "%d.%d.%d", &a, &b, &c) on a text subnetRe matched
ScanOctets(s) ==
  LET d1 == Least(Dots(s))
      d2 == Least(Dots(s) \ {d1}) IN
    <<Decimal(SubSeq(s, 1, d1 - 1)), Decimal(SubSeq(s, d1 + 1, d2 - 1)),
      Decimal(SubSeq(s, d2 + 1, Len(s)))>>

\* mutant: the range of the octets is not looked at
ValidateSubnetFormatOnly(s) ==
  IF ~MatchSubnetRe(s) THEN "format" ELSE "nil"

\* ValidateSubnet: the format error, the range error, or nil
ValidateSubnet(s) ==
  IF ~MatchSubnetRe(s) THEN "format"
  ELSE IF \E j \in 1..3 : ScanOctets(s)[j] > 255 THEN "range"
  ELSE "nil"

\* fmt.Sprintf of the flood ping command of each vendor
PingCmd(vendor, subnet) ==
  IF vendor = "mikrotik"
    THEN <<":for i from=1 to=254 do={/ping ">> \o subnet
           \o <<".$i count=1 interval=0.1}">>
    ELSE <<"for i in $(seq 1 254); do ping -c1 -W1 ">> \o subnet
           \o <<".$i &>/dev/null & done; wait">>

\* what one g.run call gives back: an error, no output, or some text
RunOutcomes == {"err", "empty", "text"}

\* mutant: the subnet goes into the command unchecked
FloodPingUnchecked(vendor, subnet, o) ==
  [err |-> IF o = "err" THEN "run" ELSE "nil",
   cmds |-> <<PingCmd(vendor, subnet)>>]

\* FloodPing of both variants: ValidateSubnet, then run the sweep
FloodPing(vendor, subnet, o) ==
  IF ValidateSubnet(subnet) # "nil"
    THEN [err |-> ValidateSubnet(subnet), cmds |-> <<>>]
    ELSE [err |-> IF o = "err" THEN "run" ELSE "nil",
          cmds |-> <<PingCmd(vendor, subnet)>>]

\* ARPTable of both variants: ValidateSubnet unless subnet is empty; mikrotik
\* runs its one print command; ubiquiti runs ip neigh and, when that fails
\* or prints nothing, arp -a.  The subnet only filters the parsed entries.
ARPTable(vendor, subnet, o1, o2) ==
  IF subnet # <<>> /\ ValidateSubnet(subnet) # "nil"
    THEN [err |-> ValidateSubnet(subnet), cmds |-> <<>>]
  ELSE IF vendor = "mikrotik"
    THEN [err |-> IF o1 = "err" THEN "run" ELSE "nil",
          cmds |-> << <<"/ip arp print terse where !invalid">> >>]
  ELSE IF o1 = "text"
    THEN [err |-> "nil", cmds |-> << <<"ip neigh show 2>/dev/null">> >>]
  ELSE [err |-> IF o2 = "err" THEN "neither" ELSE "nil",
        cmds |-> << <<"ip neigh show 2>/dev/null">>,
                    <<"arp -a 2>/dev/null">> >>]

\* subnet != "" && !strings.HasPrefix(ip, subnet+".") drops the entry
InSubnet(ip, subnet) == subnet = <<>> \/ HasPrefix(ip, subnet \o <<".">>)

\* the entries of es whose IP is in the subnet, in their order
FilterSubnet(es, subnet) ==
  LET keep(e) == InSubnet(e.IP, subnet) IN SelectSeq(es, keep)

\* a field at the start of a line, white space allowed before it: ^\s*
AfterLineStart(s, i) ==
  \E p \in 1..i :
    /\ p = 1 \/ s[p - 1] = "\n"
    /\ \A k \in p..(i - 1) : s[k] \in WhiteSpace

RECURSIVE TerseMatches(_, _, _)
\* arpTerseRe.FindAllStringSubmatch(out, -1) from field k of f on: index,
\* flags, address, mac-address, interface; the flags may be empty when two
\* or more white-space characters stand in their place
TerseMatches(s, f, k) ==
  IF k > Len(f) THEN <<>>
  ELSE IF /\ k + 4 <= Len(f)
          /\ AfterLineStart(s, f[k].from) /\ AllDigits(f[k].text)
          /\ IsDotted(f[k + 2].text) /\ IsMAC17(f[k + 3].text)
    THEN <<[Flags |-> f[k + 1].text, IP |-> f[k + 2].text,
            MAC |-> f[k + 3].text, Iface |-> f[k + 4].text]>>
           \o TerseMatches(s, f, k + 5)
  ELSE IF /\ k + 3 <= Len(f)
          /\ AfterLineStart(s, f[k].from) /\ AllDigits(f[k].text)
          /\ f[k + 1].from - f[k].to > 2
          /\ IsDotted(f[k + 1].text) /\ IsMAC17(f[k + 2].text)
    THEN <<[Flags |-> <<>>, IP |-> f[k + 1].text,
            MAC |-> f[k + 2].text, Iface |-> f[k + 3].text]>>
           \o TerseMatches(s, f, k + 4)
  ELSE TerseMatches(s, f, k + 1)

RECURSIVE NeighMatches(_, _, _)
\* neighRe.FindAllStringSubmatch(out, -1) from field k of f on: the address
\* at the very start of a line, dev, interface, lladdr, MAC, state
NeighMatches(s, f, k) ==
  IF k > Len(f) THEN <<>>
  ELSE IF /\ k + 5 <= Len(f)
          /\ f[k].from = 1 \/ s[f[k].from - 1] = "\n"
          /\ IsDotted(f[k].text)
          /\ f[k + 1].text = <<"d", "e", "v">>
          /\ f[k + 3].text = <<"l", "l", "a", "d", "d", "r">>
          /\ IsMAC17(f[k + 4].text)
    THEN <<[Flags |-> f[k + 5].text, IP |-> f[k].text,
            MAC |-> f[k + 4].text, Iface |-> f[k + 2].text]>>
           \o NeighMatches(s, f, k + 6)
  ELSE NeighMatches(s, f, k + 1)

\* \w
WordChars ==
  Digits \cup {"_"} \cup {LowerCase[i] : i \in DOMAIN LowerCase}
         \cup {UpperCase[i] : i \in DOMAIN UpperCase}

\* the address in a field that ends with \((\d+\.\d+\.\d+\.\d+)\), "" when
\* the field does not end so
ParenIP(t) ==
  LET open == {i \in 1..Len(t) : t[i] = "("} IN
    IF /\ open # {} /\ t[Len(t)] = ")"
       /\ \E i \in open : IsDotted(SubSeq(t, i + 1, Len(t) - 1))
      THEN SubSeq(t, (CHOOSE i \in open :
                        IsDotted(SubSeq(t, i + 1, Len(t) - 1))) + 1,
                  Len(t) - 1)
      ELSE <<>>

RECURSIVE BusyBoxMatches(_, _)
\* busyBoxARPRe.FindAllStringSubmatch(out, -1) from field k of f on:
\* (address) at MAC [type] on interface
BusyBoxMatches(f, k) ==
  IF k > Len(f) THEN <<>>
  ELSE IF /\ k + 5 <= Len(f)
          /\ ParenIP(f[k].text) # <<>>
          /\ f[k + 1].text = <<"a", "t">>
          /\ IsMAC17(f[k + 2].text)
          /\ Len(f[k + 3].text) >= 3
          /\ f[k + 3].text[1] = "[" /\ f[k + 3].text[Len(f[k + 3].text)] = "]"
          /\ \A i \in 2..(Len(f[k + 3].text) - 1) :
               f[k + 3].text[i] \in WordChars
          /\ f[k + 4].text = <<"o", "n">>
    THEN <<[Flags |-> <<>>, IP |-> ParenIP(f[k].text),
            MAC |-> f[k + 2].text, Iface |-> f[k + 5].text]>>
           \o BusyBoxMatches(f, k + 6)
  ELSE BusyBoxMatches(f, k + 1)

\* an ARPEntry with the MAC in upper case
UpperMAC(e) == [e EXCEPT !.MAC = ToUpper(e.MAC)]

\* parseBusyBoxARP(out, subnet)
parseBusyBoxARP(out, subnet) ==
  LET m == FilterSubnet(BusyBoxMatches(Fields(out), 1), subnet)
  IN [i \in DOMAIN m |-> UpperMAC(m[i])]

RECURSIVE ScanLines(_, _, _)
\* the line-by-line scan of parseTerseARPFallback and parseNeighFallback:
\* a blank line, a line holding `skip' (when skip is not empty), a line
\* without an address or without a MAC and a line outside the subnet give
\* nothing; any other line gives the first address and the first MAC in it
ScanLines(lines, subnet, skip) ==
  IF lines = <<>> THEN <<>>
  ELSE LET line == TrimSpace(Head(lines))
           ip == FindIP(line)
           mac == FindMAC(line)
       IN (IF \/ line = <<>>
              \/ skip # <<>> /\ Contains(line, skip)
              \/ ip = <<>> \/ mac = <<>>
              \/ ~InSubnet(ip, subnet)
             THEN <<>>
             ELSE <<[Flags |-> <<>>, IP |-> ip, MAC |-> ToUpper(mac),
                     Iface |-> <<>>]>>)
          \o ScanLines(Tail(lines), subnet, skip)

\* parseTerseARPFallback(out, subnet)
parseTerseARPFallback(out, subnet) == ScanLines(Lines(out), subnet, <<>>)

\* parseNeighFallback(out, subnet): lines holding FAILED are skipped
parseNeighFallback(out, subnet) ==
  ScanLines(Lines(out), subnet, <<"F", "A", "I", "L", "E", "D">>)

\* what ARPTable's abstraction of a run result is
OutcomeOf(r) ==
  IF r.err THEN "err" ELSE IF TrimSpace(r.out) = <<>> THEN "empty" ELSE "text"

\* the entries ARPTable returns.  r1 is what run gives the first command
\* and r2 what it gives `arp -a', were it run.  parser names the parser whose
\* entries are returned, listing the output it read and matched the number
\* of matches of the structured pattern in that output.
ARPEntries(vendor, subnet, r1, r2) ==
  LET arp == ARPTable(vendor, subnet, OutcomeOf(r1), OutcomeOf(r2))
      terse == TerseMatches(r1.out, Fields(r1.out), 1)
      neigh == NeighMatches(r1.out, Fields(r1.out), 1)
      alive(e) == ToUpper(e.Flags) # <<"F", "A", "I", "L", "E", "D">>
      upper(es) == [i \in DOMAIN es |-> UpperMAC(es[i])]
  IN IF arp.err # "nil"
       THEN [err |-> arp.err, entries |-> <<>>, parser |-> "none",
             listing |-> <<>>, matched |-> 0, cmds |-> arp.cmds]
     ELSE IF vendor = "mikrotik"
       THEN IF Len(terse) = 0 /\ TrimSpace(r1.out) # <<>>
              THEN [err |-> "nil",
                    entries |-> parseTerseARPFallback(r1.out, subnet),
                    parser |-> "parseTerseARPFallback", listing |-> r1.out,
                    matched |-> 0, cmds |-> arp.cmds]
              ELSE [err |-> "nil",
                    entries |-> upper(FilterSubnet(terse, subnet)),
                    parser |-> "arpTerseRe", listing |-> r1.out,
                    matched |-> Len(terse), cmds |-> arp.cmds]
     ELSE IF OutcomeOf(r1) = "text"
       THEN IF Len(neigh) = 0
              THEN [err |-> "nil",
                    entries |-> parseNeighFallback(r1.out, subnet),
                    parser |-> "parseNeighFallback", listing |-> r1.out,
                    matched |-> 0, cmds |-> arp.cmds]
              ELSE [err |-> "nil",
                    entries |-> upper(SelectSeq(FilterSubnet(neigh, subnet),
                                                alive)),
                    parser |-> "neighRe", listing |-> r1.out,
                    matched |-> Len(neigh), cmds |-> arp.cmds]
     ELSE [err |-> "nil", entries |-> parseBusyBoxARP(r2.out, subnet),
           parser |-> "busyBoxARPRe", listing |-> r2.out,
           matched |-> Len(BusyBoxMatches(Fields(r2.out), 1)),
           cmds |-> arp.cmds]

\* the interfaces LANInfo asks ifconfig and `ip addr show` about, in order
IfconfigIfaces == <<"eth0", "br0", "eth1", "switch0">>

IpAddrIfaces == <<"br0", "eth1", "switch0">>

\* the commands of LANInfo; the interface is a piece of its own
SystemCfgCmd == <<"cat /tmp/system.cfg 2>/dev/null">>

IpAddrAllCmd == <<"ip -o addr show 2>/dev/null">>

IfconfigCmd(iface) == <<"ifconfig ", iface, " 2>/dev/null">>

IpAddrCmd(iface) == <<"ip addr show ", iface, " 2>/dev/null">>

DnsmasqCmd ==
  <<"cat /etc/dnsmasq.d/dhcpd.conf 2>/dev/null || cat /config/dhcpd.conf 2>/dev/null">>

ConfigBootCmd == <<"cat /config/config.boot 2>/dev/null">>

\* the first place of outs holding an outcome of good, 0 when there is none
FirstHit(outs, good) ==
  IF \E i \in DOMAIN outs : outs[i] \in good
    THEN CHOOSE i \in DOMAIN outs :
           outs[i] \in good /\ \A j \in 1..(i - 1) : outs[j] \notin good
    ELSE 0

\* the commands a loop over ifaces runs: up to the interface that hit, all
\* of them when none did
LoopCmds(ifaces, hit, Cmd(_)) ==
  [i \in 1..(IF hit = 0 THEN Len(ifaces) ELSE hit) |-> Cmd(ifaces[i])]

\* mutant: every strategy is run, the first one that yielded an IP is kept
LANInfoRunsAll(a) ==
  LET hit3 == FirstHit(a.ifc, {"private"})
      hit4 == FirstHit(a.ipa, {"ip"})
      all == <<SystemCfgCmd, IpAddrAllCmd>>
               \o LoopCmds(IfconfigIfaces, hit3, IfconfigCmd)
               \o LoopCmds(IpAddrIfaces, hit4, IpAddrCmd)
      by == IF a.cfg \in {"ip", "ipdhcp"} THEN 1
            ELSE IF a.ipo = "candidate" THEN 2
            ELSE IF hit3 # 0 THEN 3
            ELSE IF hit4 # 0 THEN 4 ELSE 0
  IN [err |-> IF by = 0 THEN "undetermined" ELSE "nil", by |-> by,
      iface |-> IF by = 3 THEN IfconfigIfaces[hit3]
                ELSE IF by = 4 THEN IpAddrIfaces[hit4] ELSE "",
      cmds |-> all, dhcp |-> <<>>]

\* ubiquitiGateway.LANInfo.  a gives what each command would return, were
\* it run: cfg for system.cfg (an error, no LAN IP, an IP, an IP with the
\* DHCP range), ipo for `ip -o addr show` (an error, no candidate, a
\* candidate), ifc[i] for ifconfig of the i-th interface (an error, a public
\* or no address, a private address), ipa[i] for `ip addr show` (an error,
\* no address, an address), dns and boot for the two DHCP sources.
\* The result: the error, the strategy that set GatewayIP and its interface,
\* the strategy commands run, and the DHCP commands run after them.
LANInfo(a) ==
  LET s1 == a.cfg \in {"ip", "ipdhcp"}
      s2 == ~s1 /\ a.ipo = "candidate"
      run3 == ~s1 /\ ~s2
      hit3 == FirstHit(a.ifc, {"private"})
      run4 == run3 /\ hit3 = 0
      hit4 == FirstHit(a.ipa, {"ip"})
      by == IF s1 THEN 1 ELSE IF s2 THEN 2
            ELSE IF hit3 # 0 THEN 3 ELSE IF hit4 # 0 THEN 4 ELSE 0
      cmds == <<SystemCfgCmd>>
                \o (IF s1 THEN <<>> ELSE <<IpAddrAllCmd>>)
                \o (IF run3 THEN LoopCmds(IfconfigIfaces, hit3, IfconfigCmd)
                    ELSE <<>>)
                \o (IF run4 THEN LoopCmds(IpAddrIfaces, hit4, IpAddrCmd)
                    ELSE <<>>)
      haveDhcp == s1 /\ a.cfg = "ipdhcp"
      dhcp == IF by = 0 \/ haveDhcp THEN <<>>
              ELSE IF a.dns = "range" THEN <<DnsmasqCmd>>
              ELSE <<DnsmasqCmd, ConfigBootCmd>>
  IN [err |-> IF by = 0 THEN "undetermined" ELSE "nil", by |-> by,
      iface |-> IF by = 3 THEN IfconfigIfaces[hit3]
                ELSE IF by = 4 THEN IpAddrIfaces[hit4] ELSE "",
      cmds |-> cmds, dhcp |-> dhcp]

\* the probe commands of Detect, in the order it tries them
IdentityCmd == <<"/system identity print">>

VersionCmd == <<"cat /etc/version">>

UnameCmd == <<"uname -a">>

\* the output carries "edgeos", "ubnt" or "ubiquiti", in any case
HasUbiquitiMark(out) ==
  LET lower == ToLower(out) IN
    \/ Contains(lower, <<"e", "d", "g", "e", "o", "s">>)
    \/ Contains(lower, <<"u", "b", "n", "t">>)
    \/ Contains(lower, <<"u", "b", "i", "q", "u", "i", "t", "i">>)

\* mutant: every probe is run before the answers are looked at
DetectProbesAll(banner, r1, r2, r3) ==
  LET all == <<IdentityCmd, VersionCmd, UnameCmd>> IN
    IF Contains(ToUpper(banner), <<"R", "O", "S", "S", "S", "H">>) \/ Contains(ToUpper(banner), <<"M", "I", "K", "R", "O", "T", "I", "K">>)
      THEN [kind |-> "mikrotik", err |-> "nil", cmds |-> all]
    ELSE IF ~r1.err /\ TrimSpace(r1.out) # <<>>
            /\ ~Contains(TrimSpace(r1.out), <<"n", "o", "t", " ", "f", "o", "u", "n", "d">>)
            /\ ~Contains(TrimSpace(r1.out), <<"N", "o", " ", "s", "u", "c", "h", " ", "f", "i", "l", "e">>)
      THEN [kind |-> "mikrotik", err |-> "nil", cmds |-> all]
    ELSE [kind |-> "ubiquiti", err |-> "nil", cmds |-> all]

\* Detect(ctx, banner, run); r1, r2, r3 are what run gives back for the
\* identity, the version and the uname command, were they run
Detect(banner, r1, r2, r3) ==
  IF Contains(ToUpper(banner), <<"R", "O", "S", "S", "S", "H">>) \/ Contains(ToUpper(banner), <<"M", "I", "K", "R", "O", "T", "I", "K">>)
    THEN [kind |-> "mikrotik", err |-> "nil", cmds |-> <<>>]
  ELSE IF ~r1.err /\ TrimSpace(r1.out) # <<>>
          /\ ~Contains(TrimSpace(r1.out), <<"n", "o", "t", " ", "f", "o", "u", "n", "d">>)
          /\ ~Contains(TrimSpace(r1.out), <<"N", "o", " ", "s", "u", "c", "h", " ", "f", "i", "l", "e">>)
    THEN [kind |-> "mikrotik", err |-> "nil", cmds |-> <<IdentityCmd>>]
  ELSE IF ~r2.err /\ HasUbiquitiMark(r2.out)
    THEN [kind |-> "ubiquiti", err |-> "nil",
          cmds |-> <<IdentityCmd, VersionCmd>>]
  ELSE IF ~r3.err /\ HasUbiquitiMark(r3.out)
    THEN [kind |-> "ubiquiti", err |-> "nil",
          cmds |-> <<IdentityCmd, VersionCmd, UnameCmd>>]
  ELSE [kind |-> "ubiquiti", err |-> "nil",
        cmds |-> <<IdentityCmd, VersionCmd, UnameCmd>>]

GwCall(op, vendor, subnet, r) ==
  [op |-> op, vendor |-> vendor, subnet |-> subnet, err |-> r.err,
   cmds |-> r.cmds, runsBefore |-> gRuns]

\* the discovery step calls FloodPing on the detected gateway
FloodPingCall ==
  /\ gCalls < MaxGwCalls
  /\ \E vendor \in Vendors, subnet \in Subnets, o \in RunOutcomes :
       LET r == FloodPing(vendor, subnet, o) IN
         /\ gLast' = GwCall("FloodPing", vendor, subnet, r)
         /\ gRuns' = gRuns + Len(r.cmds)
  /\ gCalls' = gCalls + 1
  /\ UNCHANGED otherThanGw

\* the discovery step calls ARPTable on the detected gateway
ARPTableCall ==
  /\ gCalls < MaxGwCalls
  /\ \E vendor \in Vendors, subnet \in Subnets, o1, o2 \in RunOutcomes :
       LET r == ARPTable(vendor, subnet, o1, o2) IN
         /\ gLast' = GwCall("ARPTable", vendor, subnet, r)
         /\ gRuns' = gRuns + Len(r.cmds)
  /\ gCalls' = gCalls + 1
  /\ UNCHANGED otherThanGw

\* a gateway just detected: no call made, nothing run
InitGateway ==
  /\ gLast = [op |-> "none", vendor |-> "", subnet |-> <<>>, err |-> "nil",
              cmds |-> <<>>, runsBefore |-> 0]
  /\ gCalls = 0
  /\ gRuns = 0

(***************************************************************************)
(* Discovery (internal/discovery): ClassifyByVendor, DeviceClass's         *)
(* DefaultPorts and Scan.                                                  *)
(***************************************************************************)
CameraKeywords ==
  {<<"h", "i", "k", "v", "i", "s", "i", "o", "n">>,
   <<"d", "a", "h", "u", "a">>,
   <<"a", "x", "i", "s">>,
   <<"v", "i", "v", "o", "t", "e", "k">>,
   <<"h", "a", "n", "w", "h", "a">>,
   <<"r", "e", "o", "l", "i", "n", "k">>}

NVRKeywords ==
  {<<"s", "y", "n", "o", "l", "o", "g", "y">>,
   <<"q", "n", "a", "p">>}

RouterKeywords ==
  {<<"m", "i", "k", "r", "o", "t", "i", "k">>}

NetworkKeywords ==
  {<<"u", "b", "i", "q", "u", "i", "t", "i">>,
   <<"u", "i", ".", "c", "o", "m">>,
   <<"c", "i", "s", "c", "o">>,
   <<"j", "u", "n", "i", "p", "e", "r">>,
   <<"a", "r", "u", "b", "a">>,
   <<"h", "p", "e">>}

\* mutant: the vendor is matched as written
ClassifyByVendorCaseSensitive(vendor) ==
  IF \E kw \in CameraKeywords : Contains(vendor, kw) THEN "Camera"
  ELSE IF \E kw \in NVRKeywords : Contains(vendor, kw) THEN "NVR"
  ELSE IF \E kw \in RouterKeywords : Contains(vendor, kw) THEN "Router"
  ELSE IF \E kw \in NetworkKeywords : Contains(vendor, kw)
    THEN "Network Device"
  ELSE "Unknown"

\* ClassifyByVendor(vendor): the class of the first keyword list, in the
\* order camera, NVR, router, network device, one of whose keywords the
\* lower-cased vendor contains
ClassifyByVendor(vendor) ==
  LET v == ToLower(vendor) IN
    IF \E kw \in CameraKeywords : Contains(v, kw) THEN "Camera"
    ELSE IF \E kw \in NVRKeywords : Contains(v, kw) THEN "NVR"
    ELSE IF \E kw \in RouterKeywords : Contains(v, kw) THEN "Router"
    ELSE IF \E kw \in NetworkKeywords : Contains(v, kw)
      THEN "Network Device"
    ELSE "Unknown"

\* DeviceClass.DefaultPorts()
DefaultPorts(class) ==
  CASE class = "Camera" -> <<22, 80, 443, 554>>
    [] class = "NVR" -> <<22, 80, 443, 554>>
    [] class \in {"Router", "Network Device", "Server"} -> <<22, 80, 443>>
    [] OTHER -> <<80, 443>>

\* parseLastOctet: as lastOctet, but the fallback takes any number Atoi reads
parseLastOctet(ip) ==
  IF ParseIPv4(ip).ok THEN ParseIPv4(ip).v4[4]
  ELSE IF Len(Split(ip)) = 4 /\ Atoi(Split(ip)[4]).ok
    THEN Atoi(Split(ip)[4]).n
  ELSE 0

\* the DiscoveredDevice Scan builds from an ARP entry whose MAC LookupVendor
\* resolves to entry.Vendor
Device(entry) ==
  [IP |-> entry.IP, MAC |-> entry.MAC, Vendor |-> entry.Vendor,
   DeviceType |-> ClassifyByVendor(entry.Vendor),
   DefaultPorts |-> DefaultPorts(ClassifyByVendor(entry.Vendor)),
   Online |-> TRUE]

\* mutant: the devices stay in the order of the ARP entries
KeepArrivalOrder(devices) == devices

\* sort.Slice by parseLastOctet; among devices with the same last octet the
\* order is one the sort may produce
SortByLastOctet(devices) ==
  LET n == Len(devices)
      perm == CHOOSE f \in [1..n -> 1..n] :
                /\ \A i, j \in 1..n : i # j => f[i] # f[j]
                /\ \A i, j \in 1..n :
                     i < j => parseLastOctet(devices[f[i]].IP)
                                <= parseLastOctet(devices[f[j]].IP)
  IN [i \in 1..n |-> devices[perm[i]]]

\* mutant: a failed flood ping ends the scan
ScanStopsAtPing(vendor, subnet, o, o1, o2, entries, progress) ==
  LET ping == FloodPing(vendor, subnet, o)
      arp == ARPTable(vendor, subnet, o1, o2)
  IN IF ping.err # "nil"
       THEN [pingErr |-> ping.err, arpErr |-> "nil", err |-> "ping",
             isNil |-> TRUE, devices |-> <<>>, calls |-> <<>>, cmds |-> ping.cmds,
             arpFrom |-> Len(ping.cmds) + 1]
     ELSE IF arp.err # "nil"
       THEN [pingErr |-> ping.err, arpErr |-> arp.err, err |-> "arp",
             isNil |-> TRUE, devices |-> <<>>, calls |-> <<>>, cmds |-> ping.cmds \o arp.cmds,
             arpFrom |-> Len(ping.cmds) + 1]
     ELSE [pingErr |-> ping.err, arpErr |-> "nil", err |-> "nil",
           isNil |-> FALSE,
           calls |-> IF progress THEN [i \in DOMAIN entries |-> i] ELSE <<>>,
           devices |-> SortByLastOctet([i \in DOMAIN entries |->
                                          Device(entries[i])]),
           cmds |-> ping.cmds \o arp.cmds, arpFrom |-> Len(ping.cmds) + 1]

\* Scanner.Scan(ctx, subnet, progress): FloodPing with its error dropped,
\* then ARPTable; o is what run gives the ping command, o1 and o2 what it
\* gives the ARP commands, entries what ARPTable parses when it succeeds,
\* progress whether a callback is passed.  calls are the counts the
\* callback is called with, in the order of the calls.
\* cmds are the commands run, arpFrom the place of ARPTable's first in them.
Scan(vendor, subnet, o, o1, o2, entries, progress) ==
  LET ping == FloodPing(vendor, subnet, o)
      arp == ARPTable(vendor, subnet, o1, o2)
  IN IF arp.err # "nil"
       THEN [pingErr |-> ping.err, arpErr |-> arp.err, err |-> "arp",
             isNil |-> TRUE, devices |-> <<>>, calls |-> <<>>, cmds |-> ping.cmds \o arp.cmds,
             arpFrom |-> Len(ping.cmds) + 1]
     ELSE [pingErr |-> ping.err, arpErr |-> "nil", err |-> "nil",
           isNil |-> FALSE,
           calls |-> IF progress THEN [i \in DOMAIN entries |-> i] ELSE <<>>,
           devices |-> SortByLastOctet([i \in DOMAIN entries |->
                                          Device(entries[i])]),
           cmds |-> ping.cmds \o arp.cmds, arpFrom |-> Len(ping.cmds) + 1]

(***************************************************************************)
(* Tunnel (tunnel.go): Start, acceptLoop, forward, Stop.  Start runs in    *)
(* the build goroutine, the accept loop and every forward in goroutines of *)
(* their own, Stop in the goroutine of its caller; the Tunnel's fields are *)
(* not guarded by a lock, so each field write is a step.                   *)
(***************************************************************************)
\* the accept loop gives up at this many consecutive Accept errors
AcceptErrorLimit == 10

\* the local ports a tunnel may be given: those the allocator hands out
TunnelPorts == {LocalPort(k[1], k[2]) : k \in AllocKeys}

NoAddr == [host |-> "", port |-> 0]

\* NewTunnel(client, localPort, remoteHost, remotePort): disconnected, no
\* listener, ctx live, no forwarded connection
TunnelOn(localPort) ==
  [LocalPort |-> localPort, Status |-> "disconnected", Error |-> FALSE,
   listener |-> "nil", addr |-> NoAddr, cancelled |-> FALSE, connCount |-> 0]

\* mutant: the listener binds every interface
ListenAddrAnyInterface(localPort) == [host |-> "0.0.0.0", port |-> localPort]

\* listenAddr := fmt.Sprintf("127.0.0.1:%d", t.LocalPort), as net.Listen
\* resolves it: the host part and the port part
ListenAddr(localPort) == [host |-> "127.0.0.1", port |-> localPort]

\* Start: t.Status = StatusConnecting
StartConnecting ==
  /\ tpc = "new"
  /\ tun' = [tun EXCEPT !.Status = "connecting"]
  /\ tpc' = "listen"
  /\ UNCHANGED <<lpc, consecutiveErrors, pending, spc, sResult, sSeen,
                 sReported, sStatus, conns, errsSinceOk, tStorm>>
  /\ UNCHANGED otherThanTun

\* Start: net.Listen("tcp", listenAddr); on an error failed with Error set,
\* else the listener is kept, the status is active and the accept loop starts
StartListen ==
  /\ tpc = "listen"
  /\ \E ok \in BOOLEAN :
       IF ok
         THEN /\ tun' = [tun EXCEPT !.listener = "open",
                                    !.addr = ListenAddr(tun.LocalPort),
                                    !.Status = "active"]
              /\ lpc' = "accept"
         ELSE /\ tun' = [tun EXCEPT !.Status = "failed", !.Error = TRUE]
              /\ lpc' = lpc
  /\ tpc' = "returned"
  /\ UNCHANGED <<consecutiveErrors, pending, spc, sResult, sSeen,
                 sReported, sStatus, conns, errsSinceOk, tStorm>>
  /\ UNCHANGED otherThanTun

\* the connections a listener accepts, in the order it accepts them
ConnIds == 1..MaxConns

\* no forward goroutine for this connection
NoForward == [pc |-> "none", local |-> "none", remote |-> "nil"]

\* go t.forward(conn): the goroutine exists, conn is open, nothing has run
Spawned == [pc |-> "spawned", local |-> "open", remote |-> "nil"]

\* acceptLoop: Accept returned a connection: consecutiveErrors = 0 and
\* go t.forward(conn)
AcceptOk ==
  /\ lpc = "accept" /\ tun.listener = "open" /\ conns < MaxConns
  /\ consecutiveErrors' = 0
  /\ pending' = pending + 1
  /\ conns' = conns + 1
  /\ errsSinceOk' = 0
  /\ UNCHANGED <<tun, tpc, lpc, spc, sResult, sSeen, sReported, sStatus,
                 tStorm>>
  /\ fwd' = [fwd EXCEPT ![conns + 1] = Spawned]
  /\ UNCHANGED otherThanFwd

\* acceptLoop: Accept returned an error (always so on a closed listener)
AcceptErr ==
  /\ lpc = "accept"
  /\ lpc' = "error"
  /\ errsSinceOk' = errsSinceOk + 1
  /\ UNCHANGED <<tun, tpc, consecutiveErrors, pending, spc, sResult, sSeen,
                 sReported, sStatus, conns, tStorm>>
  /\ UNCHANGED otherThanTun

\* acceptLoop: select on t.ctx.Done(): return when cancelled, else go on
AcceptSelect ==
  /\ lpc = "error"
  /\ lpc' = IF tun.cancelled THEN "exited" ELSE "count"
  /\ UNCHANGED <<tun, tpc, consecutiveErrors, pending, spc, sResult, sSeen,
                 sReported, sStatus, conns, errsSinceOk, tStorm>>
  /\ UNCHANGED otherThanTun

\* mutant: the loop gives up one error early
StormReachedEarly(n) == n >= AcceptErrorLimit - 1

\* if consecutiveErrors >= 10
StormReached(n) == n >= AcceptErrorLimit

\* acceptLoop: consecutiveErrors++; at the limit Status = failed, Error set
\* and return; else sleep consecutiveErrors * 50ms and Accept again
AcceptCount ==
  /\ lpc = "count"
  /\ consecutiveErrors' = consecutiveErrors + 1
  /\ IF StormReached(consecutiveErrors + 1)
       THEN /\ tun' = [tun EXCEPT !.Status = "failed", !.Error = TRUE]
            /\ lpc' = "exited"
            /\ tStorm' = TRUE
       ELSE /\ lpc' = "accept"
            /\ UNCHANGED <<tun, tStorm>>
  /\ UNCHANGED <<tpc, pending, spc, sResult, sSeen, sReported, sStatus,
                 conns, errsSinceOk>>
  /\ UNCHANGED otherThanTun

\* forward of connection id: atomic.AddInt64(&t.connCount, 1), the first
\* statement of the goroutine
ForwardBegin ==
  /\ pending > 0
  /\ \E id \in ConnIds :
       /\ fwd[id].pc = "spawned"
       /\ fwd' = [fwd EXCEPT ![id].pc = "dial"]
  /\ pending' = pending - 1
  /\ tun' = [tun EXCEPT !.connCount = @ + 1]
  /\ UNCHANGED <<tpc, lpc, consecutiveErrors, spc, sResult, sSeen, sReported,
                 sStatus, conns, errsSinceOk, tStorm>>
  /\ UNCHANGED otherThanFwd

\* forward: remote, err := t.client.Dial("tcp", remoteAddr); on an error
\* return, else the two copy goroutines start and forward waits in its select
ForwardDial ==
  /\ \E id \in ConnIds, streamOk \in BOOLEAN :
       /\ fwd[id].pc = "dial"
       /\ fwd' = IF Dial(client, streamOk).err = "nil"
                   THEN [fwd EXCEPT ![id].pc = "copy", ![id].remote = "open"]
                   ELSE [fwd EXCEPT ![id].pc = "return"]
  /\ UNCHANGED tunVars
  /\ UNCHANGED otherThanFwd

\* mutant: a forward whose Dial failed marks the tunnel failed
ForwardEndMarksFailed ==
  /\ tun.connCount > 0
  /\ \E id \in ConnIds :
       /\ fwd[id].pc \in {"return", "copy"}
       /\ fwd' = [fwd EXCEPT
            ![id].pc = "done",
            ![id].local = "closed",
            ![id].remote = IF @ = "open" THEN "closed" ELSE @]
       /\ tun' = IF fwd[id].pc = "return"
                   THEN [tun EXCEPT !.connCount = @ - 1, !.Status = "failed",
                                    !.Error = TRUE]
                   ELSE [tun EXCEPT !.connCount = @ - 1]
  /\ UNCHANGED <<tpc, lpc, consecutiveErrors, pending, spc, sResult, sSeen,
                 sReported, sStatus, conns, errsSinceOk, tStorm>>
  /\ UNCHANGED otherThanFwd

\* forward returns: Dial failed, or the select ended (a copy direction is
\* done or ctx is done).  The deferred calls run: remote.Close() when there
\* is a remote, local.Close(), atomic.AddInt64(&t.connCount, -1)
ForwardEnd ==
  /\ tun.connCount > 0
  /\ \E id \in ConnIds :
       /\ fwd[id].pc \in {"return", "copy"}
       /\ fwd' = [fwd EXCEPT
            ![id].pc = "done",
            ![id].local = "closed",
            ![id].remote = IF @ = "open" THEN "closed" ELSE @]
  /\ tun' = [tun EXCEPT !.connCount = @ - 1]
  /\ UNCHANGED <<tpc, lpc, consecutiveErrors, pending, spc, sResult, sSeen,
                 sReported, sStatus, conns, errsSinceOk, tStorm>>
  /\ UNCHANGED otherThanFwd

\* Stop: t.cancel(); if t.listener != nil { t.listener.Close() }
StopCancel ==
  /\ spc = "idle"
  /\ tun' = [tun EXCEPT !.cancelled = TRUE,
                        !.listener = IF @ = "open" THEN "closed" ELSE @]
  /\ spc' = "drain"
  /\ UNCHANGED <<tpc, lpc, consecutiveErrors, pending, sResult, sSeen,
                 sReported, sStatus, conns, errsSinceOk, tStorm>>
  /\ UNCHANGED otherThanTun

\* Stop, top of the drain loop: connCount == 0 breaks out, Status =
\* disconnected, return nil; else wait for the ticker or the deadline
StopDrainCheck ==
  /\ spc = "drain"
  /\ sSeen' = tun.connCount
  /\ IF tun.connCount = 0
       THEN /\ tun' = [tun EXCEPT !.Status = "disconnected"]
            /\ sResult' = "nil"
            /\ sStatus' = "disconnected"
            /\ spc' = "done"
       ELSE /\ spc' = "wait"
            /\ UNCHANGED <<tun, sResult, sStatus>>
  /\ UNCHANGED <<tpc, lpc, consecutiveErrors, pending, sReported, conns,
                 errsSinceOk, tStorm>>
  /\ UNCHANGED otherThanTun

\* Stop, in the select: the 50ms ticker fires, check again
StopTick ==
  /\ spc = "wait"
  /\ spc' = "drain"
  /\ UNCHANGED <<tun, tpc, lpc, consecutiveErrors, pending, sResult, sSeen,
                 sReported, sStatus, conns, errsSinceOk, tStorm>>
  /\ UNCHANGED otherThanTun

\* mutant: the deadline branch returns the error and leaves the status
StopDeadlineKeepsStatus ==
  /\ spc = "wait"
  /\ sResult' = "timeout"
  /\ sReported' = tun.connCount
  /\ sStatus' = tun.Status
  /\ spc' = "done"
  /\ UNCHANGED <<tun, tpc, lpc, consecutiveErrors, pending, sSeen, conns,
                 errsSinceOk, tStorm>>
  /\ UNCHANGED otherThanTun

\* Stop, in the select: the 5s deadline fires: Status = disconnected, return
\* the error naming atomic.LoadInt64(&t.connCount)
StopDeadline ==
  /\ spc = "wait"
  /\ tun' = [tun EXCEPT !.Status = "disconnected"]
  /\ sResult' = "timeout"
  /\ sReported' = tun.connCount
  /\ sStatus' = "disconnected"
  /\ spc' = "done"
  /\ UNCHANGED <<tpc, lpc, consecutiveErrors, pending, sSeen, conns,
                 errsSinceOk, tStorm>>
  /\ UNCHANGED otherThanTun

\* a fresh Tunnel on one of the given local ports; nothing has run yet
InitTunnelOn(ports) ==
  /\ tun \in {TunnelOn(q) : q \in ports}
  /\ tpc = "new" /\ lpc = "none" /\ consecutiveErrors = 0 /\ pending = 0
  /\ spc = "idle" /\ sResult = "none" /\ sSeen = 0 /\ sReported = 0
  /\ sStatus = "none"
  /\ conns = 0 /\ errsSinceOk = 0 /\ tStorm = FALSE
  /\ fwd = [id \in ConnIds |-> NoForward]

(***************************************************************************)
(* The wizard (app/state.go, tui app): ValidTransition and the handlers of *)
(* AppModel.Update.  A handler is a step; the message a command returns is *)
(* in inbox until Update is called with it.                                *)
(***************************************************************************)
WizardStates ==
  {"Connect", "Detecting", "Survey", "Scanning", "Devices", "Building",
   "Tunnels", "Error"}

\* ValidTransition(from, to)
ValidTransition(from, to) ==
  CASE from = "Connect" -> to = "Detecting"
    [] from = "Detecting" -> to = "Survey" \/ to = "Error"
    [] from = "Survey" -> to = "Scanning"
    [] from = "Scanning" -> to = "Devices" \/ to = "Error"
    [] from = "Devices" -> to = "Building"
    [] from = "Building" -> to = "Tunnels"
    [] from = "Tunnels" -> to = "Connect"
    [] from = "Error" -> to # "Error"
    [] OTHER -> FALSE

\* the gateway types a connection may detect
GatewayTypes == {"MikroTik", "Ubiquiti"}

\* NewAppModel: the connect screen, nothing connected, nothing in flight
InitWizard ==
  /\ state = "Connect" /\ prevState = "Connect" /\ lastErr = "nil"
  /\ sshClient = FALSE /\ manager = FALSE /\ gatewayType = ""
  /\ inbox = {} /\ screens = {}

\* toError(err): lastErr, prevState = state, state = stateError
toError(err) ==
  /\ lastErr' = err
  /\ prevState' = state
  /\ state' = "Error"

\* disconnect(): CloseAll or Close, the backend fields are dropped and the
\* connect screen is shown again; lastErr, prevState and gatewayType stay
disconnect ==
  /\ manager' = FALSE /\ sshClient' = FALSE
  /\ state' = "Connect"
  /\ UNCHANGED <<prevState, lastErr, gatewayType>>

\* updateConnect, ConnectMsg: stateDetecting and connectCmd, which returns
\* sshConnectedMsg or DetectDoneMsg with the error
UpdateConnect ==
  /\ state = "Connect"
  /\ state' = "Detecting"
  /\ screens' = screens \cup {"detect"}
  /\ \E msg \in {[type |-> "sshConnectedMsg", gwType |-> g] : g \in GatewayTypes}
                  \cup {[type |-> "DetectDoneMsg", gwType |-> ""]} :
       inbox' = inbox \cup {msg}
  /\ UNCHANGED <<prevState, lastErr, sshClient, manager, gatewayType>>
  /\ UNCHANGED otherThanWiz

\* updateDetecting: sshConnectedMsg stores the client and starts surveyCmd,
\* DetectDoneMsg with an error goes to the error screen, SurveyDataMsg
\* (surveyCmd sets no error) shows the survey
UpdateDetecting ==
  /\ state = "Detecting"
  /\ \E msg \in inbox :
       CASE msg.type = "sshConnectedMsg" ->
              /\ sshClient' = TRUE /\ gatewayType' = msg.gwType
              /\ inbox' = (inbox \ {msg})
                            \cup {[type |-> "SurveyDataMsg", gwType |-> ""]}
              /\ UNCHANGED <<state, prevState, lastErr, manager, screens>>
         [] msg.type = "DetectDoneMsg" ->
              /\ toError("detect")
              /\ inbox' = inbox \ {msg}
              /\ UNCHANGED <<sshClient, manager, gatewayType, screens>>
         [] msg.type = "SurveyDataMsg" ->
              /\ state' = "Survey"
              /\ screens' = screens \cup {"survey"}
              /\ inbox' = inbox \ {msg}
              /\ UNCHANGED <<prevState, lastErr, sshClient, manager,
                             gatewayType>>
  /\ UNCHANGED otherThanWiz

\* updateSurvey, ScanRequestMsg: stateScanning and scanCmd, which returns
\* scanDevicesMsg or ScanDoneMsg with the error
UpdateSurvey ==
  /\ state = "Survey"
  /\ state' = "Scanning"
  /\ screens' = screens \cup {"scan"}
  /\ \E t \in {"scanDevicesMsg", "ScanDoneMsg"} :
       inbox' = inbox \cup {[type |-> t, gwType |-> ""]}
  /\ UNCHANGED <<prevState, lastErr, sshClient, manager, gatewayType>>
  /\ UNCHANGED otherThanWiz

\* updateScanning: scanDevicesMsg shows the devices, ScanDoneMsg with an
\* error goes to the error screen
UpdateScanning ==
  /\ state = "Scanning"
  /\ \E msg \in inbox :
       /\ inbox' = inbox \ {msg}
       /\ IF msg.type = "scanDevicesMsg"
            THEN /\ state' = "Devices"
                 /\ screens' = screens \cup {"devices"}
                 /\ UNCHANGED <<prevState, lastErr>>
            ELSE toError("scan") /\ UNCHANGED screens
  /\ UNCHANGED <<sshClient, manager, gatewayType>>
  /\ UNCHANGED otherThanWiz

\* updateDevices, DeviceSelectMsg: with no spec allocated the error screen,
\* else NewManager, stateBuilding and buildCmd
UpdateDevices ==
  /\ state = "Devices"
  /\ \E allocatedAny \in BOOLEAN :
       IF allocatedAny
         THEN /\ manager' = TRUE
              /\ state' = "Building"
              /\ screens' = screens \cup {"building"}
              /\ inbox' = inbox \cup {[type |-> "TunnelBuildMsg", gwType |-> ""]}
              /\ UNCHANGED <<prevState, lastErr>>
         ELSE /\ toError("no tunnels")
              /\ UNCHANGED <<manager, inbox, screens>>
  /\ UNCHANGED <<sshClient, gatewayType>>
  /\ UNCHANGED otherThanWiz

\* updateBuilding: TunnelBuildMsg chains the next read, BuildDoneMsg
\* schedules transitionToTunnelsMsg, which shows the dashboard
UpdateBuilding ==
  /\ state = "Building"
  /\ \E msg \in inbox :
       CASE msg.type = "TunnelBuildMsg" ->
              /\ \E t \in {"TunnelBuildMsg", "BuildDoneMsg"} :
                   inbox' = (inbox \ {msg}) \cup {[type |-> t, gwType |-> ""]}
              /\ UNCHANGED <<state, screens>>
         [] msg.type = "BuildDoneMsg" ->
              /\ inbox' = (inbox \ {msg})
                   \cup {[type |-> "transitionToTunnelsMsg", gwType |-> ""]}
              /\ UNCHANGED <<state, screens>>
         [] msg.type = "transitionToTunnelsMsg" ->
              /\ inbox' = inbox \ {msg}
              /\ state' = "Tunnels"
              /\ screens' = screens \cup {"tunnels"}
  /\ UNCHANGED <<prevState, lastErr, sshClient, manager, gatewayType>>
  /\ UNCHANGED otherThanWiz

\* updateTunnels, DisconnectMsg
UpdateTunnels ==
  /\ state = "Tunnels"
  /\ disconnect
  /\ UNCHANGED <<inbox, screens>>
  /\ UNCHANGED otherThanWiz

\* updateError, the key r: retry from the connect screen
UpdateError ==
  /\ state = "Error"
  /\ disconnect
  /\ UNCHANGED <<inbox, screens>>
  /\ UNCHANGED otherThanWiz

\* handleBack (Esc): from the survey and the error screen disconnect, from
\* the devices back to the survey; in the other states nothing changes
handleBack ==
  /\ state \in {"Survey", "Devices", "Error"}
  /\ IF state = "Devices"
       THEN /\ state' = "Survey"
            /\ UNCHANGED <<prevState, lastErr, sshClient, manager,
                           gatewayType>>
       ELSE disconnect
  /\ UNCHANGED <<inbox, screens>>
  /\ UNCHANGED otherThanWiz

(***************************************************************************)
(* Calls of the package-level functions on arguments drawn from bounded    *)
(* sets                                                                    *)
(***************************************************************************)
\* where no package-level function is called
InitNoCall ==
  /\ fn = "none" /\ fArg = <<>> /\ fRes = "unset" /\ fDone = FALSE

\* s[1] . s[2] . ... : the texts of s joined by dots
RECURSIVE JoinDots(_)
JoinDots(segs) ==
  IF Len(segs) = 1 THEN segs[1]
  ELSE JoinDots(SubSeq(segs, 1, Len(segs) - 1)) \o <<".">> \o segs[Len(segs)]

\* the pieces the subnet arguments are put together from
SubnetPieces ==
  {<<>>, <<"0">>, <<"7">>, <<"0", "0">>, <<"0", "0", "7">>,
   <<"2", "5", "5">>, <<"2", "5", "6">>, <<"9", "9", "9">>,
   <<"1", "0", "0", "0">>, <<"1", "a">>, <<"-", "1">>}

\* the arguments ValidateSubnet is tried on: one to MaxPieces + 1 pieces
\* joined by dots, and the texts of Subnets
ValidateArgs ==
  Subnets \cup
  {JoinDots(segs) : segs \in UNION {[1..n -> SubnetPieces] : n \in 1..(MaxPieces + 1)}}

\* the SSH banners Detect is tried on
Banners ==
  {<<"S", "S", "H", "-", "2", ".", "0", "-", "R", "O", "S", "S", "S", "H">>,
   <<"S", "S", "H", "-", "2", ".", "0", "-", "O", "p", "e", "n", "S", "S", "H", "_", "8", ".", "2">>,
   <<"S", "S", "H", "-", "2", ".", "0", "-", "d", "r", "o", "p", "b", "e", "a", "r">>,
   <<"s", "s", "h", "-", "2", ".", "0", "-", "r", "o", "s", "s", "s", "h">>,
   <<"S", "S", "H", "-", "2", ".", "0", "-", "M", "i", "k", "r", "o", "T", "i", "k">>,
   <<>>}

\* a result of run: the error and the output
RunResult(err, out) == [err |-> err, out |-> out]

\* answers to the identity command
IdentityResults ==
  {RunResult(FALSE, o) : o \in
     {<<" ", " ", "n", "a", "m", "e", ":", " ", "M", "i", "k", "r", "o", "T", "i", "k", "\n">>,
      <<>>,
      <<" ", " ", "\n">>,
      <<"s", "h", ":", " ", "/", "s", "y", "s", "t", "e", "m", ":", " ", "n", "o", "t", " ", "f", "o", "u", "n", "d", "\n">>,
      <<"/", "s", "y", "s", "t", "e", "m", ":", " ", "N", "o", " ", "s", "u", "c", "h", " ", "f", "i", "l", "e", " ", "o", "r", " ", "d", "i", "r", "e", "c", "t", "o", "r", "y">>,
      <<"v", "b", "a", "s", "h", ":", " ", "b", "a", "d", " ", "c", "o", "m", "m", "a", "n", "d">>}}
  \cup {RunResult(TRUE, <<>>), RunResult(TRUE, <<"n", "a", "m", "e", ":", " ", "g", "w">>)}

\* answers to the version and uname commands
VersionResults ==
  {RunResult(FALSE, o) : o \in
     {<<"E", "d", "g", "e", "R", "o", "u", "t", "e", "r", ".", "v", "2", " ", "E", "d", "g", "e", "O", "S">>,
      <<"L", "i", "n", "u", "x", " ", "u", "b", "n", "t", " ", "4", ".", "9">>,
      <<"U", "B", "I", "Q", "U", "I", "T", "I", " ", "a", "i", "r", "O", "S">>,
      <<"L", "i", "n", "u", "x", " ", "g", "w", " ", "4", ".", "9">>,
      <<>>}}
  \cup {RunResult(TRUE, <<>>), RunResult(TRUE, <<"E", "d", "g", "e", "O", "S">>)}

DetectArgs ==
  [banner : Banners, r1 : IdentityResults, r2 : VersionResults,
   r3 : VersionResults]

DetectCall ==
  /\ fn = "Detect" /\ ~fDone
  /\ fDone' = TRUE
  /\ fRes' = Detect(fArg.banner, fArg.r1, fArg.r2, fArg.r3)
  /\ UNCHANGED <<fn, fArg>>
  /\ UNCHANGED otherThanPure

\* the vendor texts ClassifyByVendor is tried on: each keyword in three
\* spellings, texts matching two lists, and texts matching none
VendorTexts ==
  {<<"h", "i", "k", "v", "i", "s", "i", "o", "n">>,
   <<"H", "I", "K", "V", "I", "S", "I", "O", "N">>,
   <<"H", "i", "k", "v", "i", "s", "i", "o", "n", " ", "T", "e", "c", "h", "n", "o", "l", "o", "g", "y", " ", "C", "o", ".">>,
   <<"d", "a", "h", "u", "a">>,
   <<"D", "A", "H", "U", "A">>,
   <<"D", "a", "h", "u", "a", " ", "T", "e", "c", "h", "n", "o", "l", "o", "g", "y", " ", "C", "o", ".">>,
   <<"a", "x", "i", "s">>,
   <<"A", "X", "I", "S">>,
   <<"A", "x", "i", "s", " ", "T", "e", "c", "h", "n", "o", "l", "o", "g", "y", " ", "C", "o", ".">>,
   <<"v", "i", "v", "o", "t", "e", "k">>,
   <<"V", "I", "V", "O", "T", "E", "K">>,
   <<"V", "i", "v", "o", "t", "e", "k", " ", "T", "e", "c", "h", "n", "o", "l", "o", "g", "y", " ", "C", "o", ".">>,
   <<"h", "a", "n", "w", "h", "a">>,
   <<"H", "A", "N", "W", "H", "A">>,
   <<"H", "a", "n", "w", "h", "a", " ", "T", "e", "c", "h", "n", "o", "l", "o", "g", "y", " ", "C", "o", ".">>,
   <<"r", "e", "o", "l", "i", "n", "k">>,
   <<"R", "E", "O", "L", "I", "N", "K">>,
   <<"R", "e", "o", "l", "i", "n", "k", " ", "T", "e", "c", "h", "n", "o", "l", "o", "g", "y", " ", "C", "o", ".">>,
   <<"s", "y", "n", "o", "l", "o", "g", "y">>,
   <<"S", "Y", "N", "O", "L", "O", "G", "Y">>,
   <<"S", "y", "n", "o", "l", "o", "g", "y", " ", "T", "e", "c", "h", "n", "o", "l", "o", "g", "y", " ", "C", "o", ".">>,
   <<"q", "n", "a", "p">>,
   <<"Q", "N", "A", "P">>,
   <<"Q", "n", "a", "p", " ", "T", "e", "c", "h", "n", "o", "l", "o", "g", "y", " ", "C", "o", ".">>,
   <<"m", "i", "k", "r", "o", "t", "i", "k">>,
   <<"M", "I", "K", "R", "O", "T", "I", "K">>,
   <<"M", "i", "k", "r", "o", "t", "i", "k", " ", "T", "e", "c", "h", "n", "o", "l", "o", "g", "y", " ", "C", "o", ".">>,
   <<"u", "b", "i", "q", "u", "i", "t", "i">>,
   <<"U", "B", "I", "Q", "U", "I", "T", "I">>,
   <<"U", "b", "i", "q", "u", "i", "t", "i", " ", "T", "e", "c", "h", "n", "o", "l", "o", "g", "y", " ", "C", "o", ".">>,
   <<"u", "i", ".", "c", "o", "m">>,
   <<"U", "I", ".", "C", "O", "M">>,
   <<"U", "i", ".", "c", "o", "m", " ", "T", "e", "c", "h", "n", "o", "l", "o", "g", "y", " ", "C", "o", ".">>,
   <<"c", "i", "s", "c", "o">>,
   <<"C", "I", "S", "C", "O">>,
   <<"C", "i", "s", "c", "o", " ", "T", "e", "c", "h", "n", "o", "l", "o", "g", "y", " ", "C", "o", ".">>,
   <<"j", "u", "n", "i", "p", "e", "r">>,
   <<"J", "U", "N", "I", "P", "E", "R">>,
   <<"J", "u", "n", "i", "p", "e", "r", " ", "T", "e", "c", "h", "n", "o", "l", "o", "g", "y", " ", "C", "o", ".">>,
   <<"a", "r", "u", "b", "a">>,
   <<"A", "R", "U", "B", "A">>,
   <<"A", "r", "u", "b", "a", " ", "T", "e", "c", "h", "n", "o", "l", "o", "g", "y", " ", "C", "o", ".">>,
   <<"h", "p", "e">>,
   <<"H", "P", "E">>,
   <<"H", "p", "e", " ", "T", "e", "c", "h", "n", "o", "l", "o", "g", "y", " ", "C", "o", ".">>,
   <<"D", "a", "h", "u", "a", " ", "/", " ", "C", "i", "s", "c", "o", " ", "S", "y", "s", "t", "e", "m", "s">>,
   <<"C", "i", "s", "c", "o", " ", "S", "y", "s", "t", "e", "m", "s", " ", "/", " ", "D", "a", "h", "u", "a">>,
   <<"S", "y", "n", "o", "l", "o", "g", "y", " ", "M", "i", "k", "r", "o", "T", "i", "k">>,
   <<"M", "i", "k", "r", "o", "T", "i", "k", " ", "U", "b", "i", "q", "u", "i", "t", "i">>,
   <<"Q", "N", "A", "P", " ", "A", "x", "i", "s">>,
   <<"A", "r", "u", "b", "a", " ", "H", "i", "k", "v", "i", "s", "i", "o", "n">>,
   <<"P", "r", "a", "x", "i", "s", " ", "L", "t", "d">>,
   <<>>,
   <<"I", "n", "t", "e", "l", " ", "C", "o", "r", "p", "o", "r", "a", "t", "e">>,
   <<"A", "p", "p", "l", "e", ",", " ", "I", "n", "c", ".">>,
   <<"T", "P", "-", "L", "i", "n", "k">>,
   <<"A", "x", "i", "o", "m">>,
   <<"H", "i", "k", " ", "v", "i", "s", "i", "o", "n">>,
   <<"u", "i", ",", "c", "o", "m">>}

\* what Scan stores for a vendor: its class and the class's default ports
ClassifyCall ==
  /\ fn = "ClassifyByVendor" /\ ~fDone
  /\ fDone' = TRUE
  /\ fRes' = [class |-> ClassifyByVendor(fArg),
              ports |-> DefaultPorts(ClassifyByVendor(fArg))]
  /\ UNCHANGED <<fn, fArg>>
  /\ UNCHANGED otherThanPure

\* the last fields and the remote IP texts LocalPort is tried on: dotted
\* IPv4 texts, fields with a leading zero, a sign, a letter or too large a
\* value, and texts that do not have four fields.  No text has a colon.
LastFields ==
  {<<"0">>,
   <<"5">>,
   <<"6">>,
   <<"4", "2">>,
   <<"2", "5", "5">>,
   <<"2", "5", "6">>,
   <<"0", "5">>,
   <<"0", "0", "5">>,
   <<"7", "a">>,
   <<"+", "7">>,
   <<"-", "7">>,
   <<>>,
   <<"1", "0", "0", "0">>}

IPTexts ==
  {JoinDots(<<a, b, c, d>>) : a \in {<<"1", "0">>, <<"1", "9", "2">>},
                               b \in {<<"0">>, <<"1", "6", "8">>},
                               c \in {<<"0">>, <<"1">>}, d \in LastFields}
  \cup {<<>>,
        <<"1", "0", ".", "0", ".", "0">>,
        <<"1", "0", ".", "0", ".", "0", ".", "5", ".", "6">>,
        <<"a", ".", "b", ".", "c", ".", "7">>,
        <<"9", "9", "9", ".", "0", ".", "0", ".", "5">>,
        <<"1", "0", ".", "0", ".", "0", ".", "5", " ">>,
        <<"1", "0", ".", "0", ".", "0", ".", "-", "0">>,
        <<".", ".", ".">>,
        <<"1", "0", ".", "0", ".", "0", ".", "0", "2", "5", "5">>}

\* the remote service ports LocalPort is tried on
ServicePorts == {443, 80, 22, 554, 9999, 0, 1, 21, 442, 444, 8080, 65535}

LocalPortArgs == [ip : IPTexts, port : ServicePorts]

LocalPortCall ==
  /\ fn = "LocalPort" /\ ~fDone
  /\ fDone' = TRUE
  /\ fRes' = [base |-> PortBase(fArg.port),
              local |-> LocalPort(fArg.ip, fArg.port)]
  /\ UNCHANGED <<fn, fArg>>
  /\ UNCHANGED otherThanPure

\* what ARPTable parses in the scans tried: IP and MAC of each entry, and
\* the vendor LookupVendor finds for the MAC.  One list has two entries
\* with the same last octet, one has last fields ParseIP rejects.
ARPEntryLists ==
  {<<>>,
   <<[IP |-> <<"1", "0", ".", "0", ".", "0", ".", "1", "2">>,
     MAC |-> <<"A", "A", ":", "B", "B", ":", "C", "C", ":", "0", "0", ":", "0", "0", ":", "1", "2">>,
     Vendor |-> <<"H", "i", "k", "v", "i", "s", "i", "o", "n">>]>>,
   <<[IP |-> <<"1", "0", ".", "0", ".", "0", ".", "2", "0", "0">>,
     MAC |-> <<"A", "A", ":", "B", "B", ":", "C", "C", ":", "0", "0", ":", "0", "2", ":", "0", "0">>,
     Vendor |-> <<"C", "i", "s", "c", "o", " ", "S", "y", "s", "t", "e", "m", "s">>],
    [IP |-> <<"1", "0", ".", "0", ".", "0", ".", "5">>,
     MAC |-> <<"A", "A", ":", "B", "B", ":", "C", "C", ":", "0", "0", ":", "0", "0", ":", "0", "5">>,
     Vendor |-> <<>>]>>,
   <<[IP |-> <<"1", "0", ".", "0", ".", "0", ".", "2", "0", "0">>,
     MAC |-> <<"A", "A", ":", "B", "B", ":", "C", "C", ":", "0", "0", ":", "0", "2", ":", "0", "0">>,
     Vendor |-> <<"C", "i", "s", "c", "o", " ", "S", "y", "s", "t", "e", "m", "s">>],
    [IP |-> <<"1", "0", ".", "0", ".", "0", ".", "5">>,
     MAC |-> <<"A", "A", ":", "B", "B", ":", "C", "C", ":", "0", "0", ":", "0", "0", ":", "0", "5">>,
     Vendor |-> <<"D", "a", "h", "u", "a">>],
    [IP |-> <<"1", "0", ".", "0", ".", "0", ".", "1", "2">>,
     MAC |-> <<"A", "A", ":", "B", "B", ":", "C", "C", ":", "0", "0", ":", "0", "0", ":", "1", "2">>,
     Vendor |-> <<"I", "n", "t", "e", "l", " ", "C", "o", "r", "p", "o", "r", "a", "t", "e">>]>>,
   <<[IP |-> <<"1", "9", "2", ".", "1", "6", "8", ".", "1", ".", "7">>,
     MAC |-> <<"A", "A", ":", "B", "B", ":", "C", "C", ":", "0", "1", ":", "0", "0", ":", "0", "7">>,
     Vendor |-> <<"S", "y", "n", "o", "l", "o", "g", "y">>],
    [IP |-> <<"1", "0", ".", "0", ".", "0", ".", "7">>,
     MAC |-> <<"A", "A", ":", "B", "B", ":", "C", "C", ":", "0", "0", ":", "0", "0", ":", "0", "7">>,
     Vendor |-> <<"A", "x", "i", "s">>],
    [IP |-> <<"1", "0", ".", "0", ".", "0", ".", "3">>,
     MAC |-> <<"A", "A", ":", "B", "B", ":", "C", "C", ":", "0", "0", ":", "0", "0", ":", "0", "3">>,
     Vendor |-> <<"U", "n", "k", "n", "o", "w", "n">>]>>,
   <<[IP |-> <<"1", "0", ".", "0", ".", "0", ".", "9", "9", "9">>,
     MAC |-> <<"A", "A", ":", "B", "B", ":", "C", "C", ":", "0", "0", ":", "0", "9", ":", "9", "9">>,
     Vendor |-> <<"U", "n", "k", "n", "o", "w", "n">>],
    [IP |-> <<"1", "0", ".", "0", ".", "0", ".", "0", "5">>,
     MAC |-> <<"A", "A", ":", "B", "B", ":", "C", "C", ":", "0", "0", ":", "0", "0", ":", "0", "5">>,
     Vendor |-> <<"R", "e", "o", "l", "i", "n", "k">>],
    [IP |-> <<"1", "0", ".", "0", ".", "0", ".", "4">>,
     MAC |-> <<"A", "A", ":", "B", "B", ":", "C", "C", ":", "0", "0", ":", "0", "0", ":", "0", "4">>,
     Vendor |-> <<"Q", "N", "A", "P">>]>>}

\* the subnets scanned: well-formed ones and ones ValidateSubnet rejects
ScanSubnets ==
  {<<"1", "0", ".", "0", ".", "0">>,
   <<"1", "9", "2", ".", "1", "6", "8", ".", "1">>,
   <<"9", "9", "9", ".", "0", ".", "0">>,
   <<"1", "0", ".", "0">>}

ScanArgs ==
  [vendor : Vendors, subnet : ScanSubnets, o : RunOutcomes,
   o1 : RunOutcomes, o2 : RunOutcomes, entries : ARPEntryLists,
   progress : BOOLEAN]

ScanCall ==
  /\ fn = "Scan" /\ ~fDone
  /\ fDone' = TRUE
  /\ fRes' = Scan(fArg.vendor, fArg.subnet, fArg.o, fArg.o1, fArg.o2,
                  fArg.entries, fArg.progress)
  /\ UNCHANGED <<fn, fArg>>
  /\ UNCHANGED otherThanPure

\* what the commands of LANInfo return in the queries tried
LANInfoArgs ==
  [cfg : {"err", "none", "ip", "ipdhcp"},
   ipo : {"err", "none", "candidate"},
   ifc : [1..4 -> {"err", "public", "private"}],
   ipa : [1..3 -> {"err", "none", "ip"}],
   dns : {"err", "range"}, boot : {"err", "range"}]

LANInfoCall ==
  /\ fn = "LANInfo" /\ ~fDone
  /\ fDone' = TRUE
  /\ fRes' = LANInfo(fArg)
  /\ UNCHANGED <<fn, fArg>>
  /\ UNCHANGED otherThanPure

\* the outputs run gives in the ARP queries tried: terse listings, `ip
\* neigh' listings and `arp -a' listings, each in its documented form and in
\* a drifted one, a listing of failed neighbours only, and no output
ARPOutputs ==
  {<<" ", "0", " ", "D", "H", " ", "1", "0", ".", "0", ".", "0", ".", "2", " ", "A", "A", ":", "B", "B", ":", "C", "C", ":", "D", "D", ":", "E", "E", ":", "F", "F", " ", "b", "r", "i", "d", "g", "e", "1", "\n", " ", "1", " ", "D", " ", "1", "9", "2", ".", "1", "6", "8", ".", "1", ".", "7", " ", "a", "a", ":", "b", "b", ":", "c", "c", ":", "d", "d", ":", "e", "e", ":", "0", "1", " ", "b", "r", "i", "d", "g", "e", "1", "\n", " ", "2", " ", " ", "1", "0", ".", "0", ".", "0", "1", ".", "9", " ", "a", "a", ":", "b", "b", ":", "c", "c", ":", "d", "d", ":", "e", "e", ":", "0", "9", " ", "e", "t", "h", "e", "r", "2", "\n">>,
   <<"a", "d", "d", "r", "e", "s", "s", "=", "1", "0", ".", "0", ".", "0", ".", "2", " ", "m", "a", "c", "-", "a", "d", "d", "r", "e", "s", "s", "=", "a", "a", ":", "b", "b", ":", "c", "c", ":", "d", "d", ":", "e", "e", ":", "f", "f", "\n", "\n", "1", "0", ".", "0", ".", "0", ".", "9", " ", "n", "o", "-", "m", "a", "c", "\n", "1", "9", "2", ".", "1", "6", "8", ".", "1", ".", "7", " ", "A", "A", ":", "B", "B", ":", "C", "C", ":", "D", "D", ":", "E", "E", ":", "0", "1", " ", "b", "r", "i", "d", "g", "e", "1", "\n">>,
   <<>>,
   <<" ", "\n">>,
   <<" ", "0", " ", "D", "H", " ", "1", "0", ".", "0", ".", "0", ".", "2", " ", "A", "A", ":", "B", "B", ":", "C", "C", ":", "D", "D", ":", "E", "E", ":", "F", "F", " ", "b", "r", "i", "d", "g", "e", "1", "\n", "1", "0", ".", "0", ".", "0", ".", "8", " ", "a", "a", ":", "b", "b", ":", "c", "c", ":", "d", "d", ":", "e", "e", ":", "0", "8", "\n">>,
   <<"1", "0", ".", "0", ".", "0", ".", "2", " ", "d", "e", "v", " ", "e", "t", "h", "1", " ", "l", "l", "a", "d", "d", "r", " ", "a", "a", ":", "b", "b", ":", "c", "c", ":", "d", "d", ":", "e", "e", ":", "f", "f", " ", "R", "E", "A", "C", "H", "A", "B", "L", "E", "\n", "1", "0", ".", "0", ".", "0", ".", "3", " ", "d", "e", "v", " ", "e", "t", "h", "1", " ", " ", "F", "A", "I", "L", "E", "D", "\n", "1", "9", "2", ".", "1", "6", "8", ".", "1", ".", "7", " ", "d", "e", "v", " ", "b", "r", "0", " ", "l", "l", "a", "d", "d", "r", " ", "A", "A", ":", "B", "B", ":", "C", "C", ":", "D", "D", ":", "E", "E", ":", "0", "1", " ", "S", "T", "A", "L", "E", "\n">>,
   <<"1", "0", ".", "0", ".", "0", ".", "4", " ", "d", "e", "v", " ", "e", "t", "h", "1", " ", "l", "l", "a", "d", "d", "r", " ", "a", "a", ":", "b", "b", ":", "c", "c", ":", "d", "d", ":", "e", "e", ":", "0", "4", " ", "f", "a", "i", "l", "e", "d", "\n">>,
   <<"1", "0", ".", "0", ".", "0", ".", "2", " ", "l", "l", "a", "d", "d", "r", " ", "a", "a", ":", "b", "b", ":", "c", "c", ":", "d", "d", ":", "e", "e", ":", "f", "f", " ", "d", "e", "v", " ", "e", "t", "h", "1", "\n", "1", "0", ".", "0", ".", "0", ".", "3", " ", "l", "l", "a", "d", "d", "r", " ", "a", "a", ":", "b", "b", ":", "c", "c", ":", "d", "d", ":", "e", "e", ":", "0", "3", " ", "F", "A", "I", "L", "E", "D", "\n">>,
   <<"?", " ", "(", "1", "0", ".", "0", ".", "0", ".", "5", ")", " ", "a", "t", " ", "A", "A", ":", "B", "B", ":", "C", "C", ":", "D", "D", ":", "E", "E", ":", "0", "5", " ", "[", "e", "t", "h", "e", "r", "]", " ", "o", "n", " ", "e", "t", "h", "0", "\n", "g", "w", " ", "(", "1", "9", "2", ".", "1", "6", "8", ".", "1", ".", "7", ")", " ", "a", "t", " ", "a", "a", ":", "b", "b", ":", "c", "c", ":", "d", "d", ":", "e", "e", ":", "0", "1", " ", "[", "e", "t", "h", "e", "r", "]", " ", "o", "n", " ", "b", "r", "0", "\n">>,
   <<"1", "0", ".", "0", ".", "0", ".", "5", " ", "a", "t", " ", "a", "a", ":", "b", "b", ":", "c", "c", ":", "d", "d", ":", "e", "e", ":", "0", "5", " ", "o", "n", " ", "e", "t", "h", "0", "\n">>}

ARPResults ==
  {RunResult(FALSE, o) : o \in ARPOutputs} \cup {RunResult(TRUE, <<>>)}

ARPSubnets ==
  {<<>>, <<"1", "0", ".", "0", ".", "0">>,
   <<"1", "9", "2", ".", "1", "6", "8", ".", "1">>}

ARPEntriesArgs ==
  [vendor : Vendors, subnet : ARPSubnets, r1 : ARPResults, r2 : ARPResults]

ARPEntriesCall ==
  /\ fn = "ARPTable" /\ ~fDone
  /\ fDone' = TRUE
  /\ fRes' = ARPEntries(fArg.vendor, fArg.subnet, fArg.r1, fArg.r2)
  /\ UNCHANGED <<fn, fArg>>
  /\ UNCHANGED otherThanPure

ValidateCall ==
  /\ fn = "ValidateSubnet" /\ ~fDone
  /\ fDone' = TRUE
  /\ fRes' = ValidateSubnet(fArg)
  /\ UNCHANGED <<fn, fArg>>
  /\ UNCHANGED otherThanPure

\* NewManager(client, eventChSize): no tunnels, an open empty channel
InitManager ==
  /\ tunnels = <<>>
  /\ eventCh = <<>>
  /\ chClosed = FALSE
  /\ closed = FALSE
  /\ buildCancelled = FALSE
  /\ crashed = "none"
  /\ bpc = "idle" /\ bi = 0 /\ bStartErr = FALSE /\ bFirstErr = 0
  /\ bResult = "none"
  /\ cpc = "idle" /\ cSnap = 0 /\ ci = 0 /\ cCalls = 0 /\ cReturned = 0
  /\ consumed = <<>>
  /\ offered = <<>>
  /\ startedAt = [i \in SpecIds |-> 0]
  /\ dropped = 0 /\ lateEmits = 0
  /\ sendOnClosed = FALSE
  /\ closeCount = 0
  /\ begunAtCancel = 0

\* no CloseAll call made
InitCloseHistory ==
  /\ cFirstErr = NoErr /\ cResult = NotReturned /\ cLog = <<>>

\* every Stop drains in time and the transport closes without error
InitNoStopErrors ==
  /\ stopErrs = {} /\ closeErr = FALSE

\* NewPortAllocator(): an empty table
InitAllocator ==
  /\ allocated = NoPorts
  /\ held = NoPorts
  /\ succRun = [k \in AllocKeys \cup {ExhaustKey} \cup WindowKeys |-> 0]
  /\ aLast = [op |-> "none", key |-> <<<<>>, 0>>, port |-> 0, err |-> FALSE,
              runBefore |-> 0, same |-> TRUE, before |-> NoPorts]
  /\ aCalls = 0

\* no connect flow running, nothing accepted yet in this process
InitConnHistory ==
  /\ kLast = NoCall
  /\ accepted = NoHosts
  /\ apc = "idle"
  /\ aRuns = 0
  /\ attempts = <<>>
  /\ kaStarted = FALSE /\ detectRun = FALSE /\ flowMsg = "none"

\* the Client the TUI hands to NewManager: connected to the gateway
ConnectedClient ==
  Connect(NewClient, "gw1", Password, [Type |-> "ssh-ed25519", Blob |-> 1], TRUE).c

\* Manager specifications: a fresh manager on a connected Client
Init ==
  /\ InitManager /\ chanCap \in CapChoices
  /\ InitCloseHistory /\ InitNoStopErrors
  /\ InitAllocator
  /\ InitConnHistory /\ client = ConnectedClient
  /\ InitTunnelOn({Least(TunnelPorts)})
  /\ InitSession
  /\ InitGateway
  /\ InitWizard
  /\ InitNoCall

Next ==
  \/ Build
  \/ CloseAll
  \/ Consume

Spec == Init /\ [][Next]_vars

\* a manager some of whose tunnels get connections that never drain, on a
\* Client whose transport may fail to close
InitClose ==
  /\ InitManager /\ chanCap = 1
  /\ InitCloseHistory
  /\ stopErrs \in SUBSET SpecIds /\ closeErr \in BOOLEAN
  /\ InitAllocator
  /\ InitConnHistory /\ client = ConnectedClient
  /\ InitTunnelOn({Least(TunnelPorts)})
  /\ InitSession
  /\ InitGateway
  /\ InitWizard
  /\ InitNoCall

\* BuildTunnels and CloseAll, the events left in the queue
NextClose ==
  \/ Build
  \/ CloseAll

SpecClose == InitClose /\ [][NextClose]_vars

NextBuild ==
  \/ Build
  \/ Consume

SpecBuild == Init /\ [][NextBuild]_vars /\ WF_vars(Build)

\* PortAllocator and Client specifications: a Client fresh from NewClient()
InitFresh ==
  /\ InitManager /\ chanCap = 2 * MaxSpecs
  /\ InitCloseHistory /\ InitNoStopErrors
  /\ InitAllocator
  /\ InitConnHistory /\ client = NewClient
  /\ InitTunnelOn({Least(TunnelPorts)})
  /\ InitSession
  /\ InitGateway
  /\ InitWizard
  /\ InitNoCall

NextAlloc ==
  \/ AllocCall
  \/ ReleaseCall
  \/ ReleaseAny

SpecAlloc == InitFresh /\ [][NextAlloc]_vars

\* Allocate near the highest port, and Release of what was handed out
NextWindow ==
  \/ WindowAllocate
  \/ ReleaseCall

SpecWindow == InitFresh /\ [][NextWindow]_vars

NextExhaust ==
  \/ ExhaustAllocate
  \/ ExhaustRelease

SpecExhaust == InitFresh /\ [][NextExhaust]_vars

NextClient ==
  \/ ClientConnect
  \/ ClientClose

SpecClient == InitFresh /\ [][NextClient]_vars

NextApp ==
  \/ ConnectCmdFirst
  \/ ConnectCmdRetry
  \/ ConnectCmdKeepalive
  \/ ConnectCmdDetect
  \/ AppDisconnect

SpecApp == InitFresh /\ [][NextApp]_vars

\* Client with its users: any Connect and Close calls, the keepalive loop,
\* Dial calls and one Exec call at a time
NextSession ==
  \/ SessConnect
  \/ SessClose
  \/ StartKeepalive
  \/ KeepaliveDone
  \/ KeepaliveProbe
  \/ KeepaliveMarkDead
  \/ DialCall
  \/ ExecCall
  \/ ExecCancel
  \/ CommandFinish
  \/ CommandSend
  \/ ExecSelect

SpecSession == InitFresh /\ [][NextSession]_vars

\* the goroutine running Exec is scheduled
SpecSessionFair == SpecSession /\ WF_vars(ExecSelect)

\* everything but the package-level call, as in InitFresh
InitRest ==
  /\ InitManager /\ chanCap = 2 * MaxSpecs
  /\ InitCloseHistory /\ InitNoStopErrors
  /\ InitAllocator
  /\ InitConnHistory /\ client = NewClient
  /\ InitTunnelOn({Least(TunnelPorts)})
  /\ InitSession
  /\ InitGateway
  /\ InitWizard

\* ValidateSubnet on every argument of ValidateArgs
InitValidate ==
  /\ InitRest
  /\ fn = "ValidateSubnet" /\ fArg \in ValidateArgs /\ fRes = "unset"
  /\ fDone = FALSE

NextValidate ==
  \/ ValidateCall

SpecValidate == InitValidate /\ [][NextValidate]_vars

\* Detect on every argument of DetectArgs
InitDetect ==
  /\ InitRest
  /\ fn = "Detect" /\ fArg \in DetectArgs /\ fRes = "unset"
  /\ fDone = FALSE

NextDetect ==
  \/ DetectCall

SpecDetect == InitDetect /\ [][NextDetect]_vars

\* ClassifyByVendor on every text of VendorTexts
InitClassify ==
  /\ InitRest
  /\ fn = "ClassifyByVendor" /\ fArg \in VendorTexts /\ fRes = "unset"
  /\ fDone = FALSE

NextClassify ==
  \/ ClassifyCall

SpecClassify == InitClassify /\ [][NextClassify]_vars

\* PortBase and LocalPort on every argument of LocalPortArgs
InitLocalPort ==
  /\ InitRest
  /\ fn = "LocalPort" /\ fArg \in LocalPortArgs /\ fRes = "unset"
  /\ fDone = FALSE

NextLocalPort ==
  \/ LocalPortCall

SpecLocalPort == InitLocalPort /\ [][NextLocalPort]_vars

\* Scan on every argument of ScanArgs
InitScan ==
  /\ InitRest
  /\ fn = "Scan" /\ fArg \in ScanArgs /\ fRes = "unset"
  /\ fDone = FALSE

NextScan ==
  \/ ScanCall

SpecScan == InitScan /\ [][NextScan]_vars

\* LANInfo on every argument of LANInfoArgs
InitLANInfo ==
  /\ InitRest
  /\ fn = "LANInfo" /\ fArg \in LANInfoArgs /\ fRes = "unset"
  /\ fDone = FALSE

NextLANInfo ==
  \/ LANInfoCall

SpecLANInfo == InitLANInfo /\ [][NextLANInfo]_vars

\* ARPTable's parsing on every argument of ARPEntriesArgs
InitARPEntries ==
  /\ InitRest
  /\ fn = "ARPTable" /\ fArg \in ARPEntriesArgs /\ fRes = "unset"
  /\ fDone = FALSE

NextARPEntries ==
  \/ ARPEntriesCall

SpecARPEntries == InitARPEntries /\ [][NextARPEntries]_vars

\* the wizard: every message and key the root model handles
NextWizard ==
  \/ UpdateConnect
  \/ UpdateDetecting
  \/ UpdateSurvey
  \/ UpdateScanning
  \/ UpdateDevices
  \/ UpdateBuilding
  \/ UpdateTunnels
  \/ UpdateError
  \/ handleBack

SpecWizard == InitFresh /\ [][NextWizard]_vars

\* Gateway specification: FloodPing and ARPTable calls of either variant
NextGateway ==
  \/ FloodPingCall
  \/ ARPTableCall

SpecGateway == InitFresh /\ [][NextGateway]_vars

\* Tunnel specification: one Tunnel on a connected Client
InitTun ==
  /\ InitManager /\ chanCap = 2 * MaxSpecs
  /\ InitCloseHistory /\ InitNoStopErrors
  /\ InitAllocator
  /\ InitConnHistory /\ client = ConnectedClient
  /\ InitTunnelOn(TunnelPorts)
  /\ InitSession
  /\ InitGateway
  /\ InitWizard
  /\ InitNoCall

NextTunnel ==
  \/ StartConnecting
  \/ StartListen
  \/ AcceptOk
  \/ AcceptErr
  \/ AcceptSelect
  \/ AcceptCount
  \/ ForwardBegin
  \/ ForwardDial
  \/ ForwardEnd
  \/ StopCancel
  \/ StopDrainCheck
  \/ StopTick
  \/ StopDeadline

SpecTunnel == InitTun /\ [][NextTunnel]_vars

(***************************************************************************)
(* Claims about the Manager                                                *)
(***************************************************************************)
RECURSIVE IsSubseq(_, _)
\* s is a subsequence of t
IsSubseq(s, t) ==
  IF s = <<>> THEN TRUE
  ELSE IF t = <<>> THEN FALSE
  ELSE IF Head(s) = Head(t) THEN IsSubseq(Tail(s), Tail(t))
  ELSE IsSubseq(s, Tail(t))

IsBuildEvent(ev) == ev.Type # "closed"

CloseAllReturned == cCalls >= 1 /\ cReturned = cCalls /\ cpc = "idle"

\* C1: a second CloseAll() on the same manager does not crash the process
\* (no double close of the event channel), whatever the manager did before.
C1_SecondCloseAllDoesNotCrash ==
  cCalls >= 2 => crashed = "none"

\* C2: once CloseAll() and the in-flight BuildTunnels() have both returned,
\* every tunnel of the manager is disconnected and no listener is bound.
C2_AllStoppedAfterCloseAllAndBuild ==
  (CloseAllReturned /\ bpc = "done") =>
     \A i \in 1..Len(tunnels) :
        /\ tunnels[i].Status = "disconnected"
        /\ tunnels[i].listener # "open"

\* C3: BuildTunnels offers started(1), outcome(1), started(2), outcome(2), ...
\* in input order (outcome is active or failed); Start() of spec k is invoked
\* only when exactly the events up to started(k) have been offered; and the
\* build events the consumer reads, followed by those still queued, are a
\* subsequence of the offered order.
C3_BuildEventsInSpecOrder ==
  /\ \A j \in 1..Len(offered) :
        /\ offered[j].Tunnel = (j + 1) \div 2
        /\ (j % 2 = 1 => offered[j].Type = "started")
        /\ (j % 2 = 0 => offered[j].Type \in {"active", "failed"})
  /\ \A i \in SpecIds :
        /\ startedAt[i] \in {0, 2 * i - 1}
        /\ (i <= Len(tunnels) /\ tunnels[i].Status \in {"active", "failed"}
              => startedAt[i] = 2 * i - 1)
  /\ IsSubseq(SelectSeq(consumed \o eventCh, IsBuildEvent), offered)

C3_Witness ==
  /\ bpc = "done" /\ bResult # "cancelled"
  /\ Len(offered) = 2 * MaxSpecs
  /\ Len(SelectSeq(consumed, IsBuildEvent)) >= 2
  /\ dropped > 0

\* C4: once CloseAll() has cancelled the build context, BuildTunnels creates
\* and starts no tunnel for a spec whose iteration had not begun, and if such
\* a spec remained it returns "build cancelled".
C4_CloseAllPreemptsBuild ==
  buildCancelled =>
     /\ Begun <= begunAtCancel
     /\ \A i \in SpecIds : i > begunAtCancel => startedAt[i] = 0
     /\ (bpc = "done" /\ begunAtCancel < MaxSpecs => bResult = "cancelled")

C4_Witness ==
  /\ buildCancelled /\ bpc = "done" /\ bResult = "cancelled"
  /\ begunAtCancel >= 1 /\ begunAtCancel < MaxSpecs

\* C5: for BuildTunnels racing one CloseAll(), the channel is closed exactly
\* once, no send is ever attempted on the closed channel, and an emit after
\* the close leaves the queue as it was.
C5_LateEmitIsNoOp ==
  /\ [](~sendOnClosed)
  /\ [](cCalls <= 1 => closeCount <= 1)
  /\ [](cReturned >= 1 => closeCount >= 1 /\ chClosed)
  /\ [][chClosed => Len(eventCh') <= Len(eventCh)]_vars
  /\ [][lateEmits' # lateEmits => (closed /\ eventCh' = eventCh)]_vars

C5_Witness ==
  /\ chClosed /\ lateEmits > 0 /\ crashed = "none"
  /\ bpc \in {"start", "sleep"}

\* C6: with no CloseAll(), BuildTunnels terminates and has invoked Start()
\* for every spec even if the consumer reads nothing; an event offered to a
\* full queue is dropped and the queue never exceeds its capacity.
C6_BuildNeverBlocksOnEvents ==
  /\ <>(bpc = "done")
  /\ [](bpc = "done" => \A i \in SpecIds : startedAt[i] # 0)
  /\ [](Len(eventCh) <= chanCap)
  /\ [][(Len(eventCh) = chanCap /\ offered' # offered)
          => (eventCh' = eventCh /\ dropped' = dropped + 1)]_vars

C6_Witness ==
  /\ bpc = "done" /\ consumed = <<>> /\ dropped > 0
  /\ Len(eventCh) = chanCap
  /\ \A i \in SpecIds : startedAt[i] # 0

(***************************************************************************)
(* Claims about the PortAllocator                                          *)
(***************************************************************************)
\* C7: after any sequence of Allocate and Release calls the table holds at
\* most one mapping per local port: no local port was given to two
\* allocations that are both unreleased, and the table maps exactly the
\* ports handed out, each to a mapping of that port.
C7_OneMappingPerLocalPort ==
  /\ \A q \in DOMAIN held : held[q] <= 1
  /\ DOMAIN allocated = DOMAIN held
  /\ \A q \in DOMAIN allocated : allocated[q].LocalPort = q

\* two unreleased allocations of one host:port, the second bumped off the
\* formula port by the collision
C7_Witness ==
  /\ aLast.op = "allocate" /\ ~aLast.err
  /\ aLast.port # LocalPort(aLast.key[1], aLast.key[2])
  /\ Cardinality(DOMAIN held) >= 3
  /\ aLast.runBefore < Cardinality(DOMAIN held) - 1

\* C8: after 256 successful Allocate calls for one remote host:port with no
\* Release in between, the next Allocate for it fails, returns port 0 and
\* leaves the table as it was.
C8_Allocation257Fails ==
  (aLast.op = "allocate" /\ aLast.runBefore >= 256) =>
     /\ aLast.err
     /\ aLast.port = 0
     /\ aLast.same
     /\ Cardinality(DOMAIN allocated) = 256

C8_Witness ==
  /\ aLast.op = "allocate" /\ aLast.runBefore = 256 /\ aLast.err
  /\ Cardinality(DOMAIN allocated) = 256

(***************************************************************************)
(* Claims about the Client and the connect flow                            *)
(***************************************************************************)
\* C9: on one Client, the first Connect to a host that presents a key stores
\* it; a later Connect to that host presenting a different key (type or
\* bytes) fails with the host key mismatch, leaves the Client not connected
\* and the stored key unchanged; presenting the stored key passes the check.
C9_HostKeyPinnedOnClient ==
  (kLast.op = "connect" /\ kLast.presented) =>
     /\ kLast.pinBefore = NoKey =>
          /\ kLast.err # "hostkey"
          /\ KeyOf(client.knownHosts, kLast.host) = kLast.key
     /\ (kLast.pinBefore # NoKey /\ kLast.key # kLast.pinBefore) =>
          /\ kLast.err = "hostkey"
          /\ ~client.connected
          /\ KeyOf(client.knownHosts, kLast.host) = kLast.pinBefore
     /\ (kLast.pinBefore # NoKey /\ kLast.key = kLast.pinBefore) =>
          /\ kLast.err # "hostkey"
          /\ KeyOf(client.knownHosts, kLast.host) = kLast.pinBefore

\* a second Connect presented a key of the pinned type with other bytes
C9_Witness ==
  /\ kLast.op = "connect" /\ kLast.presented
  /\ kLast.pinBefore # NoKey
  /\ kLast.key.Type = kLast.pinBefore.Type
  /\ kLast.key.Blob # kLast.pinBefore.Blob
  /\ kLast.err = "hostkey"

\* C10: within the process, a connection attempt to a host that presents a
\* key different from the first one accepted for that host is rejected with
\* the host key mismatch, across the legacy-algorithm retry and across a
\* connect after a disconnect.
C10_AcceptedKeyPinnedForProcess ==
  (kLast.op = "connect" /\ kLast.presented
     /\ kLast.accBefore # NoKey /\ kLast.key # kLast.accBefore)
  => kLast.err = "hostkey"

\* C11: a connectCmd run makes at most two Connect calls; the first uses the
\* default algorithms; a second is made only after the first failed, on a
\* Client fresh from NewClient() with the legacy algorithm set; when both
\* fail the run returns the connection failure and has started neither the
\* keepalive nor the detection; keepalive and detection follow a success only.
C11_RetryExactlyOnce ==
  /\ Len(attempts) <= 2
  /\ Len(attempts) >= 1 => attempts[1].algos = {} /\ attempts[1].on = NewClient
  /\ apc = "retry" => Len(attempts) = 1 /\ attempts[1].err # "nil"
  /\ Len(attempts) = 2 =>
       /\ attempts[1].err # "nil"
       /\ attempts[2].on = NewClient
       /\ attempts[2].algos = {"ssh-rsa"}
  /\ (Len(attempts) = 2 /\ attempts[2].err # "nil") =>
       /\ flowMsg = "connection failed"
       /\ ~kaStarted /\ ~detectRun
  /\ flowMsg = "connection failed" =>
       Len(attempts) = 2 /\ attempts[2].err # "nil"
  /\ (kaStarted \/ detectRun) =>
       attempts # <<>> /\ attempts[Len(attempts)].err = "nil"

\* both attempts of a run failed, the first after it had stored a host key
C11_Witness ==
  /\ Len(attempts) = 2
  /\ attempts[1].err = "auth" /\ attempts[2].err # "nil"
  /\ flowMsg = "connection failed" /\ apc = "failed"

(***************************************************************************)
(* Claims about the Tunnel                                                 *)
(***************************************************************************)
\* the status changes of the documented state machine
StatusSteps ==
  {<<"disconnected", "connecting">>, <<"connecting", "active">>,
   <<"connecting", "failed">>, <<"active", "disconnected">>,
   <<"active", "failed">>}

\* C12: every change of a Tunnel's status is disconnected -> connecting,
\* connecting -> active, connecting -> failed, active -> disconnected (made
\* by Stop) or active -> failed (made by the accept loop); no other status
\* change occurs.
C12_StatusStateMachine ==
  [][tun'.Status # tun.Status =>
       /\ <<tun.Status, tun'.Status>> \in StatusSteps
       /\ <<tun.Status, tun'.Status>> = <<"active", "disconnected">> =>
            spc' = "done"
       /\ <<tun.Status, tun'.Status>> = <<"active", "failed">> =>
            lpc' = "exited"]_vars

\* C13: the accept loop marks the tunnel failed, with Error set, at the 10th
\* consecutive Accept error seen with the context live, and at no smaller
\* count; it has then exited and accepts no more; while it is accepting, its
\* counter is the number of errors since the last accepted connection (zero
\* right after one) and is below 10.
C13_AcceptStormFailsTunnel ==
  /\ [](tStorm => lpc = "exited" /\ tun.Error /\ errsSinceOk = 10)
  /\ [](lpc = "accept" =>
          consecutiveErrors = errsSinceOk /\ consecutiveErrors < 10)
  /\ []((lpc # "none" /\ tun.Status = "failed") => tStorm)
  /\ [][(tStorm' /\ ~tStorm) =>
          tun'.Status = "failed" /\ lpc = "count"]_vars
  /\ [][lpc = "exited" => lpc' = "exited" /\ conns' = conns
                          /\ errsSinceOk' = errsSinceOk]_vars

\* ten errors in a row after an accepted connection failed the tunnel
C13_Witness ==
  /\ tStorm /\ conns > 0 /\ errsSinceOk = 10
  /\ tun.Status = "failed" /\ tun.Error /\ lpc = "exited"

C15_ListenerOnLoopback ==
  tun.listener # "nil" =>
    tun.addr = [host |-> "127.0.0.1", port |-> tun.LocalPort]

\* a bound listener has accepted a connection
C15_Witness ==
  /\ tun.listener = "open" /\ conns > 0
  /\ tun.addr.host = "127.0.0.1" /\ tun.addr.port = tun.LocalPort

(***************************************************************************)
(* Claims about the keepalive loop, Close, Dial and Exec                   *)
(***************************************************************************)
\* C16: while the keepalive loop runs, its counter is the number of failed
\* probes since the last successful one and is below 3; the loop marks the
\* Client not connected at the 3rd consecutive failure and exits with that;
\* connected is cleared by nothing but this and Close, and set again by
\* nothing but a Connect call that succeeds.
C16_KeepaliveMarksDeadAtThree ==
  /\ [](kpc = "select" => failures = probeRun /\ probeRun < 3)
  /\ [](kpc = "mark" => probeRun = 3)
  /\ [][(kpc = "mark" /\ kpc' # "mark") =>
          ~client'.connected /\ kpc' = "exited"]_vars
  /\ [][(client.connected /\ ~client'.connected) =>
          client' = Close(client) \/ (kpc = "mark" /\ probeRun = 3)]_vars
  /\ [][(~client.connected /\ client'.connected) =>
          kLast'.op = "connect" /\ kLast'.err = "nil"]_vars

\* the loop marked a Client dead that still holds its transport
C16_Witness ==
  /\ kpc = "exited" /\ probeRun = 3 /\ failures = 3
  /\ ~client.connected /\ client.conn

\* C17: after a Close call the Client is not connected, holds no transport,
\* its password buffer is released with every byte of it zero, and its
\* context is not live; a Close call right after a Close call leaves the
\* Client as it is and returns nil.
C17_CloseIdempotent ==
  /\ [](kLast.op = "close" =>
          /\ ~client.connected /\ ~client.conn
          /\ client.password = <<>>
          /\ \A i \in DOMAIN client.pwMem : client.pwMem[i] = 0
          /\ client.ctx # "live")
  /\ [][(kLast.op = "close" /\ DoClose) =>
          client' = client /\ kLast'.err = "nil"]_vars

\* a Close of a connected Client zeroed the password it held
C17_Witness ==
  /\ kLast.op = "close"
  /\ client.pwMem = <<0, 0>> /\ client.password = <<>>
  /\ client.ctx = "cancelled" /\ ~client.connected

\* C18: a Dial or Exec call made while the Client is not connected returns
\* the not-connected error and asks no stream or session of the transport.
C18_DialExecFailFast ==
  (sLast.op \in {"dial", "exec"} /\ ~sLast.wasConnected) =>
    sLast.err = "notconnected" /\ ~sLast.opened

\* Exec was called on a Client the keepalive loop had marked dead
C18_Witness ==
  /\ sLast.op = "exec" /\ ~sLast.wasConnected /\ sLast.hadConn
  /\ sLast.err = "notconnected" /\ ~sLast.opened

Interpolated(cmd) == SubSeq(cmd, 2, Len(cmd) - 1)

\* C20: for both variants, a FloodPing call with a subnet that ValidateSubnet
\* rejects, and an ARPTable call with a non-empty such subnet, returns an
\* error and hands no command to run; a command that was run holds, where
\* the subnet is interpolated, three runs of digits separated by dots.
C20_InvalidSubnetNeverExecuted ==
  /\ ((gLast.op = "FloodPing" \/ (gLast.op = "ARPTable" /\ gLast.subnet # <<>>))
        /\ ValidateSubnet(gLast.subnet) # "nil") =>
       /\ gLast.err # "nil"
       /\ gLast.cmds = <<>>
       /\ gRuns = gLast.runsBefore
  /\ \A j \in DOMAIN gLast.cmds :
       Len(gLast.cmds[j]) > 1 =>
         /\ Interpolated(gLast.cmds[j]) = gLast.subnet
         /\ Cardinality(Dots(gLast.subnet)) = 2
         /\ \A i \in DOMAIN gLast.subnet : gLast.subnet[i] \in Digits \cup {"."}

\* a well-formed subnet with an octet above 255 was refused after a command
\* had been run by an earlier call
C20_Witness ==
  /\ gLast.op = "FloodPing" /\ gLast.err = "range"
  /\ gLast.cmds = <<>> /\ gLast.runsBefore > 0 /\ gRuns = gLast.runsBefore

(***************************************************************************)
(* Claims about the package-level functions                                *)
(***************************************************************************)
\* the number a text of digits denotes, digit by position
OctetValue(t) ==
  IF Len(t) = 1 THEN DigitVal(t[1])
  ELSE IF Len(t) = 2 THEN 10 * DigitVal(t[1]) + DigitVal(t[2])
  ELSE 100 * DigitVal(t[1]) + 10 * DigitVal(t[2]) + DigitVal(t[3])

\* t is a decimal octet: 1 to 3 digits, value 0..255
IsOctet(t) ==
  /\ Len(t) \in 1..3
  /\ \A i \in 1..Len(t) : t[i] \in Digits
  /\ OctetValue(t) \in 0..255

\* s is exactly three decimal octets separated by dots
ThreeOctets(s) ==
  \E i, j \in 1..Len(s) :
    /\ i < j /\ s[i] = "." /\ s[j] = "."
    /\ IsOctet(SubSeq(s, 1, i - 1))
    /\ IsOctet(SubSeq(s, i + 1, j - 1))
    /\ IsOctet(SubSeq(s, j + 1, Len(s)))

BannerMarked(banner) ==
  Contains(ToUpper(banner), <<"R", "O", "S", "S", "S", "H">>) \/ Contains(ToUpper(banner), <<"M", "I", "K", "R", "O", "T", "I", "K">>)

\* the identity command was answered without error by a non-blank text that
\* is not a shell's complaint
IdentityAnswered(r) ==
  /\ ~r.err
  /\ \E i \in DOMAIN r.out : r.out[i] \notin WhiteSpace
  /\ ~Contains(r.out, <<"n", "o", "t", " ", "f", "o", "u", "n", "d">>) /\ ~Contains(r.out, <<"N", "o", " ", "s", "u", "c", "h", " ", "f", "i", "l", "e">>)

\* C22: Detect returns no error and one of the two variants; a marked
\* banner gives mikrotik with no command run; else the identity command is
\* run and a well-formed answer gives mikrotik with nothing more run; else
\* the version command is run and a vendor mark in its output gives ubiquiti
\* with uname not run; else uname is run and the result is ubiquiti.
C22_DetectFirstMatchWins ==
  (fn = "Detect" /\ fDone) =>
    /\ fRes.err = "nil" /\ fRes.kind \in {"mikrotik", "ubiquiti"}
    /\ IF BannerMarked(fArg.banner)
         THEN fRes.kind = "mikrotik" /\ fRes.cmds = <<>>
       ELSE IF IdentityAnswered(fArg.r1)
         THEN fRes.kind = "mikrotik"
              /\ fRes.cmds = << <<"/system identity print">> >>
       ELSE IF ~fArg.r2.err /\ HasUbiquitiMark(fArg.r2.out)
         THEN fRes.kind = "ubiquiti"
              /\ fRes.cmds = << <<"/system identity print">>,
                                <<"cat /etc/version">> >>
       ELSE fRes.kind = "ubiquiti"
            /\ fRes.cmds = << <<"/system identity print">>,
                              <<"cat /etc/version">>, <<"uname -a">> >>

\* the version command settled the variant, so uname was not run
C22_Witness ==
  /\ fn = "Detect" /\ fDone
  /\ fRes.kind = "ubiquiti" /\ Len(fRes.cmds) = 2
  /\ ~fArg.r3.err /\ HasUbiquitiMark(fArg.r3.out)

\* the keyword lists in the order they are tried, and their classes
KeywordLists ==
  <<CameraKeywords, NVRKeywords, RouterKeywords, NetworkKeywords>>

ListClasses == <<"Camera", "NVR", "Router", "Network Device">>

\* the lists one of whose keywords the vendor contains, letter case aside
ListsMatching(vendor) ==
  {k \in 1..4 : \E kw \in KeywordLists[k] :
     \E i \in 0..(Len(vendor) - Len(kw)) :
       \A j \in 1..Len(kw) :
         MapLetter(vendor[i + j], LowerCase, UpperCase)
           = MapLetter(kw[j], LowerCase, UpperCase)}

\* C24: the class is that of the first matching keyword list in the order
\* camera, NVR, router, network device, letter case ignored; a camera match
\* gives Camera with ports 22, 80, 443, 554 whatever else matches; no match
\* gives Unknown with ports 80, 443.
C24_ClassifyFirstMatchWins ==
  (fn = "ClassifyByVendor" /\ fDone) =>
    LET m == ListsMatching(fArg) IN
      /\ m = {} => /\ fRes.class = "Unknown"
                   /\ {fRes.ports[i] : i \in DOMAIN fRes.ports} = {80, 443}
      /\ m # {} =>
           fRes.class = ListClasses[CHOOSE k \in m : \A l \in m : k <= l]
      /\ 1 \in m =>
           /\ fRes.class = "Camera"
           /\ {fRes.ports[i] : i \in DOMAIN fRes.ports} = {22, 80, 443, 554}

\* a vendor in capitals that matches the camera list and the network list
C24_Witness ==
  /\ fn = "ClassifyByVendor" /\ fDone
  /\ fRes.class = "Camera"
  /\ ListsMatching(fArg) = {1, 4}
  /\ \E i \in DOMAIN fArg : fArg[i] = "D"

\* the value of the last octet of s where s is four decimal octets
\* separated by dots; empty for any other text
LastOctetOf(s) ==
  LET D == Dots(s) IN
    IF Cardinality(D) = 3
         /\ \A k \in 1..4 : Len(Split(s)[k]) \in 1..3 /\ IsOctet(Split(s)[k])
      THEN {OctetValue(Split(s)[4])}
      ELSE {}

\* C25: PortBase is 4430, 8030, 2230, 5540 for 443, 80, 22, 554 and
\* 10000 + 10 * p for any other p (109990 for 9999); LocalPort of an IPv4
\* text is PortBase plus the text's last octet (4435 for "10.0.0.5", 443).
C25_PortBaseAndLocalPort ==
  (fn = "LocalPort" /\ fDone) =>
    /\ fArg.port = 443 => fRes.base = 4430
    /\ fArg.port = 80 => fRes.base = 8030
    /\ fArg.port = 22 => fRes.base = 2230
    /\ fArg.port = 554 => fRes.base = 5540
    /\ fArg.port \notin {443, 80, 22, 554} =>
         fRes.base = 10000 + 10 * fArg.port
    /\ fArg.port = 9999 => fRes.base = 109990
    /\ \A o \in LastOctetOf(fArg.ip) : fRes.local = fRes.base + o
    /\ (fArg.ip = <<"1", "0", ".", "0", ".", "0", ".", "5">>
          /\ fArg.port = 443) => fRes.local = 4435

\* an IPv4 text whose last octet is not its first, on an unlisted port
C25_Witness ==
  /\ fn = "LocalPort" /\ fDone
  /\ fArg.port = 9999 /\ LastOctetOf(fArg.ip) = {255}
  /\ fRes.local = 110245

\* the ports of the probe window of the last Allocate that were free before
\* it and are not above 65535
FreeInWindow ==
  LET lp == LocalPort(aLast.key[1], aLast.key[2]) IN
    {q \in lp..(lp + 255) : q <= 65535 /\ q \notin DOMAIN aLast.before}

\* C26: Allocate returns the lowest port of [LocalPort, LocalPort + 255] that
\* was free and is not above 65535, and records its mapping and nothing
\* else; on an empty table that is LocalPort itself; with no such port (the
\* formula port above 65535 included) it fails and leaves the table alone.
C26_AllocateLowestFreeInWindow ==
  aLast.op = "allocate" =>
    LET lp == LocalPort(aLast.key[1], aLast.key[2]) IN
      /\ FreeInWindow = {} => /\ aLast.err
                              /\ allocated = aLast.before
      /\ FreeInWindow # {} =>
           /\ ~aLast.err
           /\ \A q \in FreeInWindow : aLast.port <= q
           /\ aLast.port \in FreeInWindow
           /\ DOMAIN allocated = DOMAIN aLast.before \cup {aLast.port}
           /\ \A q \in DOMAIN aLast.before : allocated[q] = aLast.before[q]
           /\ allocated[aLast.port]
                = [LocalPort |-> aLast.port, RemoteHost |-> aLast.key[1],
                   RemotePort |-> aLast.key[2]]
      /\ (aLast.before = NoPorts /\ lp <= 65535) => aLast.port = lp
      /\ lp > 65535 => aLast.err

\* the window of formula port 65534 has two ports and both were taken
C26_Witness ==
  /\ aLast.op = "allocate" /\ aLast.err
  /\ LocalPort(aLast.key[1], aLast.key[2]) = 65534
  /\ {65534, 65535} \subseteq DOMAIN aLast.before

\* C27: after Release(q) the port q has no mapping and every other mapping
\* is what it was; an Allocate whose probe reaches q (every port of its
\* window below q being taken) is handed q; a Release of a port that had no
\* mapping leaves the table as it was.
C27_ReleaseFreesExactlyThatSlot ==
  aLast.op = "release" =>
    /\ aLast.port \notin DOMAIN allocated
    /\ DOMAIN allocated = DOMAIN aLast.before \ {aLast.port}
    /\ \A q \in DOMAIN allocated : allocated[q] = aLast.before[q]
    /\ aLast.port \notin DOMAIN aLast.before => allocated = aLast.before
    /\ \A key \in AllocKeys :
         LET lp == LocalPort(key[1], key[2]) IN
           (/\ aLast.port \in lp..(lp + 255)
            /\ \A q \in lp..(aLast.port - 1) : q \in DOMAIN allocated) =>
             /\ ~Allocate(allocated, key[1], key[2]).err
             /\ Allocate(allocated, key[1], key[2]).port = aLast.port

\* port 4436 was handed to the host whose formula port is 4435 and is
\* released while 4435 stays taken
C27_Witness ==
  /\ aLast.op = "release" /\ aLast.port = 4436
  /\ 4436 \in DOMAIN aLast.before
  /\ aLast.before[4436].RemoteHost = <<"1", "0", ".", "0", ".", "0", ".", "5">>
  /\ 4435 \in DOMAIN allocated

FailedSteps == {k \in DOMAIN cLog : cLog[k].err}

\* the error of a step
ErrorOf(st) ==
  IF st.step = "stop" THEN StopErr(st.tunnel) ELSE ClientCloseErr

\* C28: when CloseAll has returned, every tunnel of its snapshot was stopped
\* and had its closed event handed to emit, also after a Stop that failed;
\* the event channel and the Client are closed; and the value returned is
\* the error of the first step that failed, nil when none did.
C28_CloseAllDoesNotAbortOnStopError ==
  cResult # NotReturned =>
    /\ \A i \in 1..cSnap :
         /\ \E k \in DOMAIN cLog :
              cLog[k].step = "stop" /\ cLog[k].tunnel = tunnels[i].id
         /\ \E k \in DOMAIN cLog :
              cLog[k].step = "closed" /\ cLog[k].tunnel = tunnels[i].id
         /\ tunnels[i].cancelled
    /\ chClosed /\ closed
    /\ ~client.connected /\ ~client.conn
    /\ IF FailedSteps = {} THEN cResult = NoErr
       ELSE cResult = ErrorOf(cLog[Least(FailedSteps)])

\* Stop of the first tunnel failed, the second tunnel was stopped all the
\* same and its Stop failed too, and the first error was returned
C28_Witness ==
  /\ cResult = StopErr(1)
  /\ cSnap = 2
  /\ \E k \in FailedSteps : cLog[k].step = "stop" /\ cLog[k].tunnel = 2
  /\ \E k \in FailedSteps : cLog[k].step = "clientClose"

RECURSIVE StopSteps(_)
\* stop and closed of the first n tunnels, tunnel by tunnel
StopSteps(n) ==
  IF n = 0 THEN <<>>
  ELSE StopSteps(n - 1) \o << <<"stop", n>>, <<"closed", n>> >>

\* the steps of a CloseAll call over a snapshot of n tunnels
CloseOrder(n) ==
  << <<"cancel", 0>> >> \o StopSteps(n)
    \o << <<"closeCh", 0>>, <<"clientClose", 0>> >>

\* C29: the steps of a CloseAll call are, in this order: the cancel of the
\* build context, then Stop and the closed event of each snapshot tunnel in
\* the order the tunnels were added, then the close of the event channel,
\* then the close of the Client.  So no closed event follows the close of
\* the channel, and the Client is closed by a call only after every tunnel
\* of its snapshot was stopped.
C29_CloseAllStepsInOrder ==
  /\ Len(cLog) <= Len(CloseOrder(cSnap))
  /\ \A k \in DOMAIN cLog :
       <<cLog[k].step, cLog[k].tunnel>> = CloseOrder(cSnap)[k]
  /\ cLog # <<>> => buildCancelled
  /\ \A k \in DOMAIN cLog :
       /\ cLog[k].step = "closed" => ~\E l \in 1..k : cLog[l].step = "closeCh"
       /\ cLog[k].step = "closeCh" => chClosed
       /\ cLog[k].step = "clientClose" =>
            /\ ~client.conn
            /\ \A i \in 1..cSnap : tunnels[i].cancelled

\* a call over two tunnels has made all its seven steps
C29_Witness ==
  /\ cSnap = 2 /\ Len(cLog) = 7
  /\ cLog[7].step = "clientClose" /\ cLog[6].step = "closeCh"
  /\ cLog[5] = CloseStep("closed", 2, FALSE)

\* the specs whose tunnel failed to start
FailedSpecs == {k \in 1..Len(tunnels) : tunnels[k].Status = "failed"}

\* the events handed to emit so far
OfferedEvents == {offered[k] : k \in DOMAIN offered}

\* C30: with no CloseAll, when BuildTunnels has returned every spec has its
\* tunnel in the managed list, failed ones included, and every tunnel was
\* started; failed(k) was handed to emit exactly for the specs whose Start
\* failed, active(k) for the others; and the value returned is the error of
\* the first spec that failed, nil when none did.
C30_FailedTunnelDoesNotAbortBuild ==
  bpc = "done" =>
    /\ Len(tunnels) = MaxSpecs
    /\ \A k \in SpecIds :
         /\ tunnels[k].id = k
         /\ TunnelEvent(k, "started") \in OfferedEvents
         /\ startedAt[k] > 0
         /\ tunnels[k].Status \in {"failed", "active"}
         /\ TunnelEvent(k, "failed") \in OfferedEvents <=> k \in FailedSpecs
         /\ TunnelEvent(k, "active") \in OfferedEvents <=> k \notin FailedSpecs
    /\ IF FailedSpecs = {} THEN bResult = "nil" /\ bFirstErr = 0
       ELSE bResult = "error" /\ bFirstErr = Least(FailedSpecs)

\* the first spec failed to bind and the last one is active
C30_Witness ==
  /\ bpc = "done" /\ bResult = "error" /\ bFirstErr = 1
  /\ tunnels[1].Status = "failed"
  /\ tunnels[MaxSpecs].Status = "active"
  /\ offered[Len(offered)] = TunnelEvent(MaxSpecs, "active")

(***************************************************************************)
(* Claims about the forward goroutines and Stop                            *)
(***************************************************************************)
\* the forward goroutine of connection id has begun and makes this step
ForwardStepOf(id) ==
  fwd[id].pc \in {"dial", "copy", "return"} /\ fwd'[id] # fwd[id]

\* C31: a step of a running forward goroutine, its return after a failed
\* Dial or after the end of the copy included, leaves the Tunnel's Status,
\* Error, listener and context, the accept loop and every other forward as
\* they are; when it returns it has closed its own sockets and taken one
\* from connCount, and before that connCount stays.
C31_ForwardsAreIndependent ==
  [][\A id \in ConnIds :
       ForwardStepOf(id) =>
         /\ tun'.Status = tun.Status /\ tun'.Error = tun.Error
         /\ tun'.listener = tun.listener /\ tun'.cancelled = tun.cancelled
         /\ lpc' = lpc /\ consecutiveErrors' = consecutiveErrors
         /\ \A other \in ConnIds \ {id} : fwd'[other] = fwd[other]
         /\ IF fwd'[id].pc = "done"
              THEN /\ tun'.connCount = tun.connCount - 1
                   /\ fwd'[id].local = "closed"
                   /\ fwd'[id].remote # "open"
              ELSE /\ tun'.connCount = tun.connCount
                   /\ fwd'[id].local = fwd[id].local]_vars

\* one forward returned after its Dial failed while another is copying and
\* the tunnel is active
C31_Witness ==
  /\ \E id \in ConnIds :
       fwd[id].pc = "done" /\ fwd[id].remote = "nil"
                           /\ fwd[id].local = "closed"
  /\ \E id \in ConnIds : fwd[id].pc = "copy" /\ fwd[id].remote = "open"
  /\ tun.Status = "active" /\ ~tun.Error /\ lpc = "accept"
  /\ tun.connCount = 1

\* C36: when Stop has returned nil no forward goroutine is running or
\* spawned and not yet counted, and connCount is zero.
C36_NilStopMeansNoForwardInFlight ==
  sResult = "nil" =>
    /\ pending = 0
    /\ tun.connCount = 0
    /\ \A id \in ConnIds : fwd[id].pc \in {"none", "done"}

\* C37: once Stop has set disconnected and returned, no step of the accept
\* loop writes Status or Error.
C37_NoAcceptLoopWriteAfterStop ==
  [][(sStatus = "disconnected" /\ lpc \in {"accept", "error", "count"}
        /\ lpc' # lpc) =>
       (tun'.Status = tun.Status /\ tun'.Error = tun.Error)]_vars

(***************************************************************************)
(* Claims about the Ubiquiti gateway's queries, ARPTable's parsers and     *)
(* Scan's result                                                           *)
(***************************************************************************)
\* the strategy a command of LANInfo belongs to
StrategyOf(cmd) ==
  IF cmd = <<"cat /tmp/system.cfg 2>/dev/null">> THEN 1
  ELSE IF cmd = <<"ip -o addr show 2>/dev/null">> THEN 2
  ELSE IF cmd[1] = "ifconfig " THEN 3
  ELSE IF cmd[1] = "ip addr show " THEN 4
  ELSE 0

\* strategy n yields a gateway IP with the answers a
Yields(a, n) ==
  CASE n = 1 -> a.cfg \in {"ip", "ipdhcp"}
    [] n = 2 -> a.ipo = "candidate"
    [] n = 3 -> \E i \in 1..4 : a.ifc[i] = "private"
    [] n = 4 -> \E i \in 1..3 : a.ipa[i] = "ip"

\* C32: LANInfo runs its strategies in the order system.cfg, ip -o addr,
\* ifconfig, ip addr show; the strategy that sets the gateway IP is the
\* first one that yields one, every strategy before it was run (failed
\* commands included) and no command of a later strategy is run; the query
\* fails exactly when no strategy yields an IP.
C32_LANInfoCascade ==
  (fn = "LANInfo" /\ fDone) =>
    /\ \A k \in DOMAIN fRes.cmds : StrategyOf(fRes.cmds[k]) \in 1..4
    /\ \A k, l \in DOMAIN fRes.cmds :
         k < l => StrategyOf(fRes.cmds[k]) <= StrategyOf(fRes.cmds[l])
    /\ fRes.err = "nil" <=> \E n \in 1..4 : Yields(fArg, n)
    /\ fRes.err = "nil" =>
         /\ Yields(fArg, fRes.by)
         /\ \A n \in 1..(fRes.by - 1) : ~Yields(fArg, n)
         /\ {StrategyOf(fRes.cmds[k]) : k \in DOMAIN fRes.cmds} = 1..fRes.by
    /\ fRes.err # "nil" =>
         /\ fRes.by = 0
         /\ Len(fRes.cmds) = 2 + Len(IfconfigIfaces) + Len(IpAddrIfaces)

\* system.cfg could not be read, ip -o addr gave nothing, ifconfig failed for
\* eth0 and gave a private address for br0: two interfaces asked, no more
C32_Witness ==
  /\ fn = "LANInfo" /\ fDone
  /\ fArg.cfg = "err" /\ fArg.ipo = "none" /\ fArg.ifc[1] = "err"
  /\ fRes.by = 3 /\ fRes.iface = "br0" /\ Len(fRes.cmds) = 4
  /\ Yields(fArg, 4)

\* the line-scanners of ARPTable
LineScanners == {"parseTerseARPFallback", "parseNeighFallback"}

\* C33: when ARPTable succeeds, the entries come from a line-scanner
\* exactly when the structured pattern matched nothing in the listing read
\* and that listing was not blank; and with a subnet given every entry's IP
\* starts with the subnet and a dot.
C33_ScannerIffNoStructuredMatch ==
  (fn = "ARPTable" /\ fDone /\ fRes.err = "nil") =>
    /\ fRes.parser \in LineScanners
         <=> (fRes.matched = 0 /\ TrimSpace(fRes.listing) # <<>>)
    /\ fArg.subnet # <<>> =>
         \A i \in DOMAIN fRes.entries :
           HasPrefix(fRes.entries[i].IP, fArg.subnet \o <<".">>)

\* the subnet filter alone, which every parser applies
ARPEntriesInSubnet ==
  (fn = "ARPTable" /\ fDone /\ fRes.err = "nil" /\ fArg.subnet # <<>>) =>
    \A i \in DOMAIN fRes.entries :
      HasPrefix(fRes.entries[i].IP, fArg.subnet \o <<".">>)

\* the choice of parser alone, for the listings of `/ip arp print' and
\* `ip neigh show'
ScannerIffOutsideBusyBox ==
  (fn = "ARPTable" /\ fDone /\ fRes.err = "nil"
     /\ fRes.parser # "busyBoxARPRe") =>
    (fRes.parser \in LineScanners
       <=> (fRes.matched = 0 /\ TrimSpace(fRes.listing) # <<>>))

\* the entry a device stands for: an entry with its IP and MAC
EntryOf(d, entries) ==
  {k \in DOMAIN entries : entries[k].IP = d.IP /\ entries[k].MAC = d.MAC}

\* C34: a successful Scan returns one device per ARP entry, with the
\* entry's IP and MAC, online, with the default ports of its class, in
\* non-decreasing order of the last octet; a progress callback is called
\* once per entry with 1, 2, ..., n and the devices are those returned
\* without a callback.
C34_ScanResult ==
  (fn = "Scan" /\ fDone /\ fRes.err = "nil") =>
    /\ Len(fRes.devices) = Len(fArg.entries)
    /\ \E f \in [DOMAIN fRes.devices -> DOMAIN fArg.entries] :
         /\ \A i, j \in DOMAIN fRes.devices : i # j => f[i] # f[j]
         /\ \A i \in DOMAIN fRes.devices :
              /\ f[i] \in EntryOf(fRes.devices[i], fArg.entries)
              /\ fRes.devices[i].Online
              /\ fRes.devices[i].DefaultPorts
                   = DefaultPorts(fRes.devices[i].DeviceType)
              /\ fRes.devices[i].DeviceType
                   = ClassifyByVendor(fArg.entries[f[i]].Vendor)
    /\ \A i, j \in DOMAIN fRes.devices :
         i < j => parseLastOctet(fRes.devices[i].IP)
                    <= parseLastOctet(fRes.devices[j].IP)
    /\ fArg.progress => fRes.calls = [i \in 1..Len(fArg.entries) |-> i]
    /\ ~fArg.progress => fRes.calls = <<>>
    /\ fRes.devices = Scan(fArg.vendor, fArg.subnet, fArg.o, fArg.o1,
                           fArg.o2, fArg.entries, FALSE).devices

\* three entries arrive out of order, two of them with the last octet 7,
\* a callback is passed: three devices, three calls, 3 before the two 7s
C34_Witness ==
  /\ fn = "Scan" /\ fDone /\ fRes.err = "nil" /\ fArg.progress
  /\ Len(fArg.entries) = 3
  /\ parseLastOctet(fArg.entries[1].IP) = 7
  /\ parseLastOctet(fArg.entries[2].IP) = 7
  /\ fRes.devices[1].IP = fArg.entries[3].IP
  /\ fRes.devices[1].MAC = fArg.entries[3].MAC
  /\ fRes.calls = <<1, 2, 3>>

(***************************************************************************)
(* Claims about a second Connect, the event queue's size and the wizard    *)
(***************************************************************************)
\* C35: Connect on a Client that is connected returns the "already
\* connected" error and changes no field of the Client: the session, the
\* gateway address, the password buffer and the known hosts stay.
C35_ConnectWhenConnected ==
  [][(ClientConnect /\ client.connected) =>
       /\ kLast'.err = "already"
       /\ client' = client
       /\ accepted' = accepted]_vars

\* a Connect was refused on a Client that holds a session to a gateway
C35_Witness ==
  /\ kLast.op = "connect" /\ kLast.err = "already"
  /\ client.connected /\ client.conn /\ client.gateway # ""

\* C38: with the queue sized at twice the number of specs and no CloseAll,
\* a build on a fresh manager drops no event: what was offered is what was
\* consumed followed by what is queued, and when the build has returned
\* every spec's started event and its outcome event have been enqueued.
C38_NoDropAtDoubleCapacity ==
  chanCap = EventChSize(MaxSpecs) =>
    /\ dropped = 0
    /\ consumed \o eventCh = offered
    /\ bpc = "done" =>
         /\ Len(offered) = 2 * MaxSpecs
         /\ \A i \in SpecIds :
              /\ \E k \in DOMAIN offered : offered[k] = TunnelEvent(i, "started")
              /\ \E k \in DOMAIN offered :
                   /\ offered[k].Tunnel = i
                   /\ offered[k].Type \in {"active", "failed"}

\* the build has returned, the consumer has read nothing, and the queue
\* of 2 x MaxSpecs slots holds every event
C38_Witness ==
  /\ chanCap = EventChSize(MaxSpecs) /\ bpc = "done" /\ consumed = <<>>
  /\ Len(eventCh) = 2 * MaxSpecs /\ Len(eventCh) = chanCap
  /\ dropped = 0

\* C39: every change of the wizard state is a transition ValidTransition
\* allows.
C39_WizardFollowsValidTransition ==
  [][state' # state => ValidTransition(state, state')]_vars

\* the state changes of the root model that ValidTransition does not allow
WizardDeviations ==
  {<<"Survey", "Connect">>, <<"Devices", "Survey">>, <<"Devices", "Error">>}

\* every other change of the wizard state is a valid transition
ValidOutsideDeviations ==
  [][state' # state =>
       \/ ValidTransition(state, state')
       \/ <<state, state'>> \in WizardDeviations]_vars

====
